---- MODULE Spec2Model ----
(***************************************************************************)
(* The campaigns executor of src-cli (internal/campaigns/executor.go): a   *)
(* bounded-parallelism scheduler that drives every registered task through *)
(* cache check -> log -> runSteps -> changeset spec -> cache store, and    *)
(* collects the specs for Wait.                                            *)
(***************************************************************************)
EXTENDS Integers, Sequences, FiniteSets, TLC

\* ------------------------------------------------------------------ bounds
\* Number of tasks the caller may register before Start.
MaxTasks == 2

\* Largest reading of the wall clock (readings are 1..MaxClock, 0 is the
\* zero time.Time of a field that was never assigned).
MaxClock == 2

\* Number of steps of the campaign spec (every task runs the same steps).
NumSteps == 2

\* Number of entries of a repository archive that unzip reads at most.
MaxEntries == 2

\* Number of path segments in the name of an archive entry, at most.
MaxSegs == 2

\* Number of bytes a command hands to a prefix writer in one Write, at most.
MaxBytes == 2

\* Number of Write calls the prefix writers of one logger receive, at most.
MaxWrites == 2
MaxOn == 2
MaxRepos == 2
MaxTries == 2

Tasks == 1..MaxTasks

\* ------------------------------------------------------------------ values
\* A *ChangesetSpec.  repo is the task's repository, gen tells which
\* execution produced the diff: 0 an entry that was in the cache before the
\* first run, 1 the first run, 2 the second run.
NoSpec == [repo |-> 0, gen |-> 0]

\* An error value.  Go errors are distinct objects: task is the task whose
\* pipeline created it, kind the message of the outermost wrap.
NoErr == [task |-> 0, kind |-> "nil"]

MkErr(t, kind) == [task |-> t, kind |-> kind]

VARIABLES
  parallelism,    \* ExecutorOpts.Parallelism
  clearCache,     \* ExecutorOpts.ClearCache
  cache,          \* the execution cache: key -> spec, NoSpec when absent
  now,            \* the wall clock: what time.Now() returns
  xpc,            \* position of the caller: "add", "start", "wait", "done"
  tasks,          \* executor.tasks: the registry, task -> TaskStatus
  pc,             \* position of the worker of each task
  held,           \* slots of par (the limiter) that are taken
  firstErr,       \* the error par retains for Wait
  specs,          \* executor.specs
  err,            \* the named result `err` of do, per task
  updates,        \* per task, the statuses passed to updateTaskStatus, in order
  events,         \* per task, the external operations its pipeline performed
  dockerRuns,     \* per task, the number of `docker run` invocations
  finishedWrites, \* per task, the number of assignments to status.FinishedAt
  errOrder,       \* the tasks that called par.Error, in call order
  waitResult,     \* the list Wait returned
  waitErr,        \* the error Wait returned
  rerun,          \* FALSE in the first run, TRUE in the second run on the same cache
  cancelled,      \* the ctx passed to Start has been cancelled
  expired,        \* the tasks whose runCtx has passed its deadline
  ctxDeadline,    \* the ctx passed to Start has passed a deadline of its own
  keepLogs,       \* LogManager.keepLogs
  logs,           \* per task, its TaskLogger and the file behind it
  rpc,            \* per task, the position of its worker inside runSteps
  disk,           \* per task, the scratch files and directories it has on disk
  written,        \* per task, the paths unzip has created
  zipEntry,       \* per task, the archive entry unzip looked at last (f)
  ops,            \* per task, the git and docker commands it ran, in order
  defers,         \* per task, the deferred calls of runSteps, last one first
  cleanups,       \* per task, the steps whose container id was read back, and
                  \* whether `docker rm` was started for it
  logFile,        \* the lines in the file of a TaskLogger, in order
  wrote,          \* the writes its prefix writers received, in order
  seenLog,        \* per task, the log file as it was when the last status
                  \* of the task was reported
  jFlag,          \* *parallelismFlag, the value of -j (0 when not given)
  gomaxprocs,     \* runtime.GOMAXPROCS(0)
  spc,            \* position of the apply handler and ExecuteCampaignSpec
  resolved,       \* the number of steps whose image has been set
  svcErr,         \* the error ExecuteCampaignSpec returned
  lmTasks,        \* LogManager.tasks: the loggers AddTask stored, by task
  lmpc,           \* where LogManager.Close is
  lmClosed,       \* what logger.Close() returned to the callback of Range
  lmErrs,         \* the local errs of LogManager.Close
  lmRet,          \* what LogManager.Close returned
  rrOn,           \* spec.On as handed to ResolveRepositories, with what the
                  \* backend answers for each clause
  rrpc,           \* where ResolveRepositories is
  rrIdx,          \* the number of clauses its loop has been through
  rrFinal,        \* its local final, as a list of repository ids
  rrSeen,         \* its local seen
  rrRet,          \* what it returned
  vdSpec,         \* the validationSpec validate decoded from the script
  vdpc,           \* where validate is
  vdClient,       \* validator.client
  vdNew,          \* what the last call of newClient returned
  vdAuth,         \* what the last call of authenticate returned
  vdExt,          \* what addExternalService returned
  vdDeferred,     \* validate has deferred the deletion of the service
  vdDeletes,      \* the ids deleteExternalService was called with, in order
  vdTries,        \* i, the loop counter of waitRepoCloned
  vdAnswers,      \* what listClonedRepos returned to it, try by try
  vdWait,         \* what waitRepoCloned returned
  vdRet           \* what validate returned

vars == <<parallelism, clearCache, cache, now, xpc, tasks, pc, held, firstErr,
          specs, err, updates, events, dockerRuns, finishedWrites, errOrder,
          waitResult, waitErr, rerun, cancelled, expired, ctxDeadline,
          keepLogs, logs, rpc, disk, written, zipEntry, ops, defers, cleanups, logFile, wrote, seenLog,
          jFlag, gomaxprocs, spc, resolved, svcErr,
          lmTasks, lmpc, lmClosed, lmErrs, lmRet,
          rrOn, rrpc, rrIdx, rrFinal, rrSeen, rrRet,
          vdSpec, vdpc, vdClient, vdNew, vdAuth, vdExt, vdDeferred, vdDeletes,
          vdTries, vdAnswers, vdWait, vdRet>>

\* The state of runSteps: it changes only while a worker is inside it.
runVars == <<rpc, disk, written, zipEntry, ops, defers, cleanups>>

\* LogManager.Close, which the executor never calls.
lmVars == <<lmTasks, lmpc, lmClosed, lmErrs, lmRet>>

\* Service.ResolveRepositories, taken by itself.
rrVars == <<rrOn, rrpc, rrIdx, rrFinal, rrSeen, rrRet>>

\* The validator of `src validate`.
vdVars == <<vdSpec, vdpc, vdClient, vdNew, vdAuth, vdExt, vdDeferred, vdDeletes,
            vdTries, vdAnswers, vdWait, vdRet>>

\* What is beside the executor and the service: it changes only in the
\* specifications of its own.
sideVars == <<lmVars, rrVars, vdVars>>

\* The executor, its workers, their loggers and the service: all that is
\* not beside them.
coreVars == <<parallelism, clearCache, cache, now, xpc, tasks, pc, held, firstErr,
              specs, err, updates, events, dockerRuns, finishedWrites, errOrder,
              waitResult, waitErr, rerun, cancelled, expired, ctxDeadline,
              keepLogs, logs, rpc, disk, written, zipEntry, ops, defers, cleanups,
              logFile, wrote, seenLog, jFlag, gomaxprocs, spc, resolved, svcErr>>

\* The command and the service around the executor.
svcVars == <<jFlag, gomaxprocs, spc, resolved, svcErr>>

\* What lies outside the executor and its workers, and is left alone by
\* them: the file of a logger as its writers fill it, the service, and
\* what the receiver of the statuses found.
outVars == <<logFile, wrote, svcVars, seenLog>>

\* The contexts: they change by the hand of the environment only.
ctxVars == <<cancelled, expired, ctxDeadline>>

\* --------------------------------------------------------------- helpers
\* No TaskLogger: logger.AddTask has not been called for the task.
NoLogger == [file |-> "none", errored |-> FALSE, keep |-> FALSE, calls |-> << >>]

\* newTaskLogger, log.go lines 59-71: a new file in the scratch root, open.
\* file is "open", "closed" (closed and still on disk) or "removed"; calls
\* are the method calls the logger received, in order.
newTaskLogger(keep) == [file |-> "open", errored |-> FALSE, keep |-> keep, calls |-> << >>]

\* A logger that takes no notice of being marked.
MarkErroredLost(tl) == [tl EXCEPT !.calls = Append(@, "MarkErrored")]

\* TaskLogger.MarkErrored, log.go lines 98-100.
MarkErrored(tl) == [tl EXCEPT !.errored = TRUE, !.calls = Append(@, "MarkErrored")]

\* TaskLogger.Close, log.go lines 73-88: close the file; return if the
\* logger is errored or kept; return (line 81).  The removal of the file,
\* lines 83-85, comes after that return and is never executed.
Close(tl) ==
  IF tl.errored \/ tl.keep
    THEN [tl EXCEPT !.file = "closed", !.calls = Append(@, "Close")]
    ELSE [tl EXCEPT !.file = "closed", !.calls = Append(@, "Close")]

\* Task.cacheKey: the key wraps the task itself.
cacheKey(t) == t

\* The zero TaskStatus with EnqueuedAt set, as AddTask stores it.
NewStatus(at) ==
  [Cached |-> FALSE, EnqueuedAt |-> at, StartedAt |-> 0, FinishedAt |-> 0,
   ChangesetSpec |-> NoSpec, Err |-> NoErr]

Registered == DOMAIN tasks

\* The generation tag of a spec built in the current run.
Gen == IF rerun THEN 2 ELSE 1

\* No archive entry read yet.
NoEntry == [n |-> 0, abs |-> FALSE, segs |-> << >>, dir |-> FALSE]

\* State of a freshly constructed executor (newExecutor), for any options.
FreshExecutor ==
  /\ xpc = "add"
  /\ tasks = << >>
  /\ pc = [t \in Tasks |-> "idle"]
  /\ held = 0
  /\ firstErr = NoErr
  /\ specs = << >>
  /\ err = [t \in Tasks |-> NoErr]
  /\ updates = [t \in Tasks |-> << >>]
  /\ events = [t \in Tasks |-> {}]
  /\ dockerRuns = [t \in Tasks |-> 0]
  /\ finishedWrites = [t \in Tasks |-> 0]
  /\ errOrder = << >>
  /\ waitResult = << >>
  /\ waitErr = NoErr
  /\ logs = [t \in Tasks |-> NoLogger]
  /\ rpc = [t \in Tasks |-> "out"]
  /\ disk = [t \in Tasks |-> {}]
  /\ written = [t \in Tasks |-> {}]
  /\ zipEntry = [t \in Tasks |-> NoEntry]
  /\ ops = [t \in Tasks |-> << >>]
  /\ defers = [t \in Tasks |-> << >>]
  /\ cleanups = [t \in Tasks |-> {}]

\* Outside the executor nothing has happened yet: the log file is empty.
LogFileInit ==
  /\ logFile = << >>
  /\ wrote = << >>
  /\ seenLog = [t \in Tasks |-> "unseen"]

\* LogManager.Close has not been called, and is not going to be.
LogManagerIdle ==
  /\ lmTasks = << >>
  /\ lmpc = "idle"
  /\ lmClosed = << >>
  /\ lmErrs = << >>
  /\ lmRet = << >>

\* ResolveRepositories has not been called, and is not going to be.
ResolverIdle ==
  /\ rrOn = << >>
  /\ rrpc = "returned"
  /\ rrIdx = 0
  /\ rrFinal = << >>
  /\ rrSeen = {}
  /\ rrRet = << >>

\* A nil *vdClient, and the client newClient makes, lines 443-447: it has
\* the CSRF token and cookie and no session cookie.
NilClient == [nil |-> TRUE, session |-> FALSE]
NewVdClient == [nil |-> FALSE, session |-> FALSE]

\* Nothing has been called yet, and nothing has returned.
NotReturned == [called |-> FALSE]

\* A validator that has called nothing yet: vd.client is nil.
ValidatorFresh ==
  /\ vdClient = NilClient
  /\ vdNew = NotReturned
  /\ vdAuth = NotReturned
  /\ vdExt = NotReturned
  /\ vdDeferred = FALSE
  /\ vdDeletes = << >>
  /\ vdTries = 0
  /\ vdAnswers = << >>
  /\ vdWait = NotReturned
  /\ vdRet = NotReturned

\* validate has not been called, and is not going to be.
ValidatorIdle ==
  /\ vdSpec = << >>
  /\ vdpc = "returned"
  /\ ValidatorFresh

\* Nothing beside the executor is in use.
OutsideInit ==
  /\ LogFileInit
  /\ LogManagerIdle
  /\ ResolverIdle
  /\ ValidatorIdle

\* The service has resolved the image of every step and is about to hand
\* the tasks to an executor made with the given parallelism (service.go,
\* line 71).
ServiceAtExecutor ==
  /\ jFlag = 0
  /\ gomaxprocs = parallelism
  /\ spc = "exec"
  /\ resolved = NumSteps
  /\ svcErr = NoErr

\* The executor never reads keepLogs: the log manager hands it to the
\* loggers, where it has no effect on what Close does.
Init ==
  /\ parallelism \in 1..MaxTasks
  /\ clearCache \in BOOLEAN
  /\ cache \in {[t \in Tasks |-> IF t \in S THEN [repo |-> t, gen |-> 0] ELSE NoSpec] :
                  S \in SUBSET Tasks}
  /\ now = 1
  /\ rerun = FALSE
  /\ cancelled = FALSE
  /\ ctxDeadline = FALSE
  /\ expired = {}
  /\ keepLogs = FALSE
  /\ FreshExecutor
  /\ OutsideInit
  /\ ServiceAtExecutor

\* ------------------------------------------------------------ the caller
\* executor.AddTask: store a new status with EnqueuedAt = time.Now().  Tasks
\* are numbered in registration order.
AddTask(t) ==
  /\ xpc = "add"
  /\ t = Cardinality(Registered) + 1
  /\ tasks' = tasks @@ (t :> NewStatus(now))
  /\ UNCHANGED <<parallelism, clearCache, cache, now, xpc, pc, held, firstErr, specs,
                 err, updates, events, dockerRuns, finishedWrites, errOrder,
                 waitResult, waitErr, rerun, ctxVars, keepLogs, sideVars, outVars, logs, runVars>>

\* The caller stops registering and calls Start: tasks.Range begins.
Start ==
  /\ xpc = "add"
  /\ xpc' = "start"
  /\ UNCHANGED <<parallelism, clearCache, cache, now, tasks, pc, held, firstErr,
                 specs, err, updates, events, dockerRuns, finishedWrites,
                 errOrder, waitResult, waitErr, rerun, ctxVars, keepLogs, sideVars, outVars, logs, runVars>>

\* A limiter that lets one worker too many through.
AcquireReadyOneMore == held <= parallelism

\* par.Acquire returns only when the limiter, of capacity Parallelism, has a
\* free slot.
AcquireReady == held < parallelism

\* One iteration of the Range callback of Start: Acquire a slot, then spawn
\* the worker goroutine of the task.  sync.Map.Range visits the tasks in no
\* particular order.
StartSpawn(t) ==
  /\ xpc = "start"
  /\ t \in Registered
  /\ pc[t] = "idle"
  /\ AcquireReady
  /\ held' = held + 1
  /\ pc' = [pc EXCEPT ![t] = "spawned"]
  /\ UNCHANGED <<parallelism, clearCache, cache, now, xpc, tasks, firstErr, specs,
                 err, updates, events, dockerRuns, finishedWrites, errOrder,
                 waitResult, waitErr, rerun, ctxVars, keepLogs, sideVars, outVars, logs, runVars>>

\* A Range callback that stops the iteration once a task has failed.
RangeDoneFailFast == firstErr # NoErr \/ \A t \in Registered : pc[t] # "idle"

\* The Range callback always returns true: Range ends when it has visited
\* every registered task.
RangeDone == \A t \in Registered : pc[t] # "idle"

\* Range is over: close(doneEnqueuing), Start returns and the caller calls
\* Wait, which passes <-doneEnqueuing.
StartClose ==
  /\ xpc = "start"
  /\ RangeDone
  /\ xpc' = "wait"
  /\ UNCHANGED <<parallelism, clearCache, cache, now, tasks, pc, held, firstErr,
                 specs, err, updates, events, dockerRuns, finishedWrites,
                 errOrder, waitResult, waitErr, rerun, ctxVars, keepLogs, sideVars, outVars, logs, runVars>>

\* A Wait that does not wait for the workers.
ParWaitNoWait == TRUE

\* par.Wait returns once every acquired slot has been released.
ParWaitReady == held = 0

\* A Wait that hands out the collected specs along with the error.
WaitSpecsKept == specs

\* The list Wait returns: nil when par.Wait returned an error.
WaitSpecs == IF firstErr # NoErr THEN << >> ELSE specs

\* executor.Wait.
Wait ==
  /\ xpc = "wait"
  /\ ParWaitReady
  /\ waitErr' = firstErr
  /\ waitResult' = WaitSpecs
  /\ xpc' = "done"
  /\ UNCHANGED <<parallelism, clearCache, cache, now, tasks, pc, held, firstErr,
                 specs, err, updates, events, dockerRuns, finishedWrites,
                 errOrder, rerun, ctxVars, keepLogs, sideVars, outVars, logs, runVars>>

\* ------------------------------------------------------------ the worker
\* updateTaskStatus: store the status and hand a copy to the callback.
Updated(t, st) ==
  /\ tasks' = [tasks EXCEPT ![t] = st]
  /\ updates' = [updates EXCEPT ![t] = Append(@, st)]

\* A worker that reports the start without recording its time.
StartedStatusUnset(st, at) == st

\* The status of a task that starts, line 126.
StartedStatus(st, at) == [st EXCEPT !.StartedAt = at]

\* do, lines 112-127: load the status, set StartedAt, report it.
DoStart(t) ==
  /\ pc[t] = "spawned"
  /\ Updated(t, StartedStatus(tasks[t], now))
  /\ pc' = [pc EXCEPT ![t] = "cache"]
  /\ UNCHANGED <<parallelism, clearCache, cache, now, xpc, held, firstErr, specs, err,
                 events, dockerRuns, finishedWrites, errOrder, waitResult,
                 waitErr, rerun, ctxVars, keepLogs, sideVars, outVars, logs, runVars>>

\* ExecutionCache.Get without an error: the entry stored under the key, or
\* null when there is none.
CacheLookup(k) == cache[k]

\* ExecutionCache.Clear without an error: the entry of the key is gone.
CacheCleared(k) == [cache EXCEPT ![k] = NoSpec]

\* ExecutionCache.Set without an error: the key now holds the spec.
CacheStored(k, spec) == [cache EXCEPT ![k] = spec]

\* Leave the pipeline with an error: the deferred functions run next.
Fail(t, kind, next) ==
  /\ err' = [err EXCEPT ![t] = MkErr(t, kind)]
  /\ pc' = [pc EXCEPT ![t] = next]

\* An executor that ignores the ClearCache option.
ClearBranchIgnored == FALSE

\* do, line 131: the branch taken when ClearCache is set.
ClearBranch == clearCache

\* do, lines 131-135: ClearCache is set, so clear the entry of the key.
CacheClear(t) ==
  /\ pc[t] = "cache"
  /\ ClearBranch
  /\ events' = [events EXCEPT ![t] = @ \cup {"cache.Clear"}]
  /\ \/ /\ cache' = CacheCleared(cacheKey(t))
        /\ pc' = [pc EXCEPT ![t] = "log"]
        /\ UNCHANGED err
     \/ /\ Fail(t, "clearing cache", "deferred")
        /\ UNCHANGED cache
  /\ UNCHANGED <<parallelism, clearCache, now, xpc, tasks, held, firstErr, specs,
                 updates, dockerRuns, finishedWrites, errOrder, waitResult,
                 waitErr, rerun, ctxVars, keepLogs, sideVars, outVars, logs, runVars>>

\* A cache hit that does not attach the cached spec to the status.
HitStatusNoResult(st, result, at) == [st EXCEPT !.Cached = TRUE, !.FinishedAt = at]

\* The status of a cache hit, lines 142-144.
HitStatus(st, result, at) ==
  [st EXCEPT !.Cached = TRUE, !.ChangesetSpec = result, !.FinishedAt = at]

\* do, lines 136-146: look the key up; an error fails the task, a hit
\* reports the cached spec, a miss goes on to execute.
CacheGet(t) ==
  /\ pc[t] = "cache"
  /\ ~ClearBranch
  /\ events' = [events EXCEPT ![t] = @ \cup {"cache.Get"}]
  /\ \/ /\ Fail(t, "checking cache", "deferred")
        /\ UNCHANGED <<tasks, updates, finishedWrites>>
     \/ /\ CacheLookup(cacheKey(t)) # NoSpec
        /\ Updated(t, HitStatus(tasks[t], CacheLookup(cacheKey(t)), now))
        /\ finishedWrites' = [finishedWrites EXCEPT ![t] = @ + 1]
        /\ pc' = [pc EXCEPT ![t] = "hit"]
        /\ UNCHANGED err
     \/ /\ CacheLookup(cacheKey(t)) = NoSpec
        /\ pc' = [pc EXCEPT ![t] = "log"]
        /\ UNCHANGED <<tasks, updates, finishedWrites, err>>
  /\ UNCHANGED <<parallelism, clearCache, cache, now, xpc, held, firstErr, specs,
                 dockerRuns, errOrder, waitResult, waitErr, rerun, ctxVars, keepLogs, sideVars,
                 outVars, logs, runVars>>

\* do, lines 147-152: under specsMu, append the cached spec; return.
HitAppend(t) ==
  /\ pc[t] = "hit"
  /\ specs' = Append(specs, tasks[t].ChangesetSpec)
  /\ pc' = [pc EXCEPT ![t] = "deferred"]
  /\ UNCHANGED <<parallelism, clearCache, cache, now, xpc, tasks, held, firstErr,
                 err, updates, events, dockerRuns, finishedWrites, errOrder,
                 waitResult, waitErr, rerun, ctxVars, keepLogs, sideVars, outVars, logs, runVars>>

\* do, lines 158-168: create the task log; on success its close is deferred.
LogAdd(t) ==
  /\ pc[t] = "log"
  /\ \/ /\ events' = [events EXCEPT ![t] = @ \cup {"log"}]
        /\ logs' = [logs EXCEPT ![t] = newTaskLogger(keepLogs)]
        /\ pc' = [pc EXCEPT ![t] = "run"]
        /\ UNCHANGED err
     \/ /\ Fail(t, "creating log file", "deferred")
        /\ UNCHANGED <<events, logs>>
  /\ UNCHANGED <<parallelism, clearCache, cache, now, xpc, tasks, held, firstErr,
                 specs, updates, dockerRuns, finishedWrites, errOrder,
                 waitResult, waitErr, rerun, ctxVars, keepLogs, sideVars, outVars, runVars>>

\* The stages of runSteps that can return an error, in program order: the
\* archive download (lines 23-26), the extraction (30-33), git init, add
\* and commit (46-55), the step loop (57-113), git add and diff (115-128).
\* Each is named by the message its first error is wrapped with.
RunStages == <<"Fetching ZIP archive failed", "Unzipping the ZIP archive failed",
               "git init failed", "Running Docker container for image %q failed",
               "git diff failed">>

DockerStage == 4

\* What a stage does outside the process, as recorded in events.
StageEvent == <<"fetch", "workspace", "git", "docker", "diff">>

\* runSteps when stage `failed` returns an error (0: none does) and, if
\* that stage is the step loop, its step `step` is the one that fails: the
\* stages up to the failing one are attempted in order, the steps up to the
\* failing one are launched in order.
RunStepsEvents(failed) ==
  {StageEvent[i] : i \in {j \in 1..Len(RunStages) :
                            /\ failed = 0 \/ j <= failed
                            /\ j = DockerStage => NumSteps > 0}}

RunStepsDockerRuns(failed, step) ==
  IF failed = 0 \/ failed > DockerStage THEN NumSteps
  ELSE IF failed = DockerStage THEN step
  ELSE 0

\* The inputs for which runSteps can fail: any stage, and in the step loop
\* any step.
RunStepsFaults ==
  {<<f, k>> \in (0..Len(RunStages)) \X (0..NumSteps) :
     IF f = DockerStage THEN k >= 1 ELSE k = 0}

\* The stages of runSteps that work under the context they are given: the
\* request of the download (lines 148-153) and every command started with
\* exec.CommandContext (lines 37, 76).  The extraction gets the context and
\* never looks at it (lines 139-145).
CtxStages == {1, 3, 4, 5}

\* runCtx.Err() of the task: context.WithTimeout(ctx, x.Timeout), line 171,
\* is done with the error of whichever came first: its deadline, or the
\* end of ctx, by a deadline of its own or by cancellation.
RunCtxErr(t) ==
  IF t \in expired \/ ctxDeadline THEN "DeadlineExceeded"
  ELSE IF cancelled THEN "Canceled"
  ELSE "nil"

\* The errors stage f of runSteps can return under a context whose Err() is
\* ctxErr.  exit is the String() of the *exec.ExitError that is the cause of
\* the error, "none" if the cause is no ExitError; is the context error found
\* in its chain, "none" if there is none.  While the context is live a
\* stage fails of its own, or its process is killed by somebody else; once
\* it is done the process is killed by exec, or the error of the context
\* comes back from the HTTP client or from cmd.Start.  A stage that does
\* not look at the context fails of its own only.
StageErrors(ctxErr, f) ==
  IF ctxErr = "nil"
    THEN {[exit |-> "none", is |-> "none"]} \cup
         (IF f \in CtxStages \ {1}
            THEN {[exit |-> "exit status 1", is |-> "none"],
                  [exit |-> "signal: killed", is |-> "none"]}
            ELSE {})
  ELSE IF f \notin CtxStages THEN {[exit |-> "none", is |-> "none"]}
  ELSE {[exit |-> "none", is |-> ctxErr]} \cup
       (IF f # 1 THEN {[exit |-> "signal: killed", is |-> "none"]} ELSE {})

\* A test that takes every killed process for a timeout.
reachedTimeoutOnKill(cmdCtxErr, e) ==
  \/ e.exit = "signal: killed"
  \/ e.is = "DeadlineExceeded"

\* reachedTimeout, lines 232-240.
reachedTimeout(cmdCtxErr, e) ==
  \/ e.exit = "signal: killed" /\ cmdCtxErr = "DeadlineExceeded"
  \/ e.is = "DeadlineExceeded"

\* ExecutorOpts.Timeout, in units of the clock.
Timeout == 1

\* &errTimeoutReached{timeout: x.Timeout}, line 178.
errTimeoutReached(t) == [task |-> t, kind |-> "Timeout reached", timeout |-> Timeout]

\* do, lines 176-180: the error do returns when runSteps returned the
\* error e, which reads `wrapped` unless the deadline is behind it.
DoError(t, ctxErr, e, wrapped) ==
  IF reachedTimeout(ctxErr, e) THEN errTimeoutReached(t) ELSE wrapped

\* An executor that hands every error of runSteps on as it is.
RunErrorAsIs(t, ctxErr, f, e) == MkErr(t, RunStages[f])

\* The error do returns when stage f of runSteps returned e.
RunError(t, ctxErr, f, e) == DoError(t, ctxErr, e, MkErr(t, RunStages[f]))

\* The context is what stopped the stage that returned e.
Aborted(ctxErr, e) == ctxErr # "nil" /\ (e.is # "none" \/ e.exit = "signal: killed")

\* Commands that run to their end whatever becomes of their context.
RunStepsCompletesAlways(ctxErr) == TRUE

\* runSteps gets through to its last command, git diff (line 125), only
\* under a context that is not done: the request of the download and
\* exec.CommandContext give up on a context that is done.
RunStepsCompletes(ctxErr) == ctxErr = "nil"

\* The ChangesetSpec do builds from the diff, lines 184-201.
BuiltSpec(t) == [repo |-> t, gen |-> Gen]

\* do, lines 170-203: run the steps of the task under runCtx (runSteps works
\* on files of its own only); on an error leave, with the timeout error if
\* the deadline is what stopped it, else build the spec, set it in the
\* status and report it.  "aborted" in events tells that runCtx stopped
\* runSteps.
Execute(t) ==
  /\ pc[t] = "run"
  /\ \E fk \in RunStepsFaults :
       /\ fk[1] = 0 => RunStepsCompletes(RunCtxErr(t))
       /\ dockerRuns' = [dockerRuns EXCEPT ![t] = RunStepsDockerRuns(fk[1], fk[2])]
       /\ IF fk[1] # 0
            THEN /\ \E e \in StageErrors(RunCtxErr(t), fk[1]) :
                      /\ err' = [err EXCEPT ![t] = RunError(t, RunCtxErr(t), fk[1], e)]
                      /\ events' = [events EXCEPT ![t] =
                                      @ \cup RunStepsEvents(fk[1]) \cup
                                      (IF Aborted(RunCtxErr(t), e) THEN {"aborted"} ELSE {})]
                 /\ pc' = [pc EXCEPT ![t] = "deferred"]
                 /\ UNCHANGED <<tasks, updates>>
            ELSE /\ Updated(t, [tasks[t] EXCEPT !.ChangesetSpec = BuiltSpec(t)])
                 /\ events' = [events EXCEPT ![t] = @ \cup RunStepsEvents(0)]
                 /\ pc' = [pc EXCEPT ![t] = "append"]
                 /\ UNCHANGED err
  /\ UNCHANGED <<parallelism, clearCache, cache, now, xpc, held, firstErr, specs,
                 finishedWrites, errOrder, waitResult, waitErr, rerun, ctxVars, keepLogs, sideVars,
                 outVars, logs, runVars>>

\* do, lines 205-208: under specsMu, append the spec to executor.specs.
AppendSpec(t) ==
  /\ pc[t] = "append"
  /\ specs' = Append(specs, tasks[t].ChangesetSpec)
  /\ pc' = [pc EXCEPT ![t] = "set"]
  /\ UNCHANGED <<parallelism, clearCache, cache, now, xpc, tasks, held, firstErr,
                 err, updates, events, dockerRuns, finishedWrites, errOrder,
                 waitResult, waitErr, rerun, ctxVars, keepLogs, sideVars, outVars, logs, runVars>>

\* A cache write that stores an empty entry.
SetValueEmpty(t) == NoSpec

\* The value do hands to cache.Set, line 212: the spec it built.
SetValue(t) == tasks[t].ChangesetSpec

\* A cache.Set that is handed runCtx.
SetCtxErrOfRunCtx(t) == RunCtxErr(t)

\* Err() of the context do hands to cache.Set, line 212: ctx, the one
\* Start was called with, not runCtx.
SetCtxErr(t) ==
  IF ctxDeadline THEN "DeadlineExceeded"
  ELSE IF cancelled THEN "Canceled"
  ELSE "nil"

\* do, lines 210-216: store the spec in the cache; an error becomes the
\* result of do.
CacheSet(t) ==
  /\ pc[t] = "set"
  /\ events' = [events EXCEPT ![t] =
                  @ \cup {"cache.Set"} \cup
                  (IF SetCtxErr(t) # "nil" THEN {"cache.Set under a done ctx"} ELSE {})]
  /\ \/ /\ cache' = CacheStored(cacheKey(t), SetValue(t))
        /\ pc' = [pc EXCEPT ![t] = "deferred"]
        /\ UNCHANGED err
     \/ /\ Fail(t, "caching result", "deferred")
        /\ UNCHANGED cache
  /\ UNCHANGED <<parallelism, clearCache, now, xpc, tasks, held, firstErr, specs,
                 updates, dockerRuns, finishedWrites, errOrder, waitResult,
                 waitErr, rerun, ctxVars, keepLogs, sideVars, outVars, logs, runVars>>

\* do, lines 163-168, deferred once the log exists: mark the logger errored
\* if do fails, close it.
LogClosed(tl, e) ==
  IF tl.file = "none" THEN tl
  ELSE Close(IF e # NoErr THEN MarkErrored(tl) ELSE tl)

\* A do that reports the last status before it closes the log.
LogAtReportStillOpen(tl, e) == tl

\* The logger when the function deferred at lines 118-123 reports the last
\* status: it was deferred first and runs last, after the one of lines
\* 163-168.
LogAtReport(tl, e) == LogClosed(tl, e)

\* The same, as seen in the events of the task.
LogDeferred(ev, e) ==
  IF "log" \in ev
    THEN ev \cup (IF e # NoErr THEN {"log.MarkErrored"} ELSE {}) \cup {"log.Close"}
    ELSE ev

\* The status the deferred function of do reports, lines 120-121.
FinalStatus(st, e, at) == [st EXCEPT !.FinishedAt = at, !.Err = e]

\* do returns and its deferred functions run, last registered first: the
\* log is closed (lines 163-168), then FinishedAt and Err are set and the
\* status is reported (lines 118-123); control is back in the goroutine of
\* Start.
Deferred(t) ==
  /\ pc[t] = "deferred"
  /\ events' = [events EXCEPT ![t] = LogDeferred(@, err[t])]
  /\ logs' = [logs EXCEPT ![t] = LogClosed(@, err[t])]
  /\ seenLog' = [seenLog EXCEPT ![t] = LogAtReport(logs[t], err[t]).file]
  /\ Updated(t, FinalStatus(tasks[t], err[t], now))
  /\ finishedWrites' = [finishedWrites EXCEPT ![t] = @ + 1]
  /\ pc' = [pc EXCEPT ![t] = IF err[t] # NoErr THEN "error" ELSE "release"]
  /\ UNCHANGED <<parallelism, clearCache, cache, now, xpc, held, firstErr, specs, err,
                 dockerRuns, errOrder, waitResult, waitErr, rerun, ctxVars, keepLogs, sideVars,
                 logFile, wrote, svcVars, runVars>>

\* par.Error: the first error handed in is the one par keeps.
ParError(e) == IF firstErr = NoErr THEN e ELSE firstErr

\* Start, lines 90-93: do returned an error, hand it to par.
ReportError(t) ==
  /\ pc[t] = "error"
  /\ firstErr' = ParError(err[t])
  /\ errOrder' = Append(errOrder, t)
  /\ pc' = [pc EXCEPT ![t] = "release"]
  /\ UNCHANGED <<parallelism, clearCache, cache, now, xpc, tasks, held, specs,
                 err, updates, events, dockerRuns, finishedWrites, waitResult,
                 waitErr, rerun, ctxVars, keepLogs, sideVars, outVars, logs, runVars>>

\* A worker that gives its slot back only when do returned nil.
ReleaseOnSuccess(t) ==
  /\ pc[t] = "release"
  /\ held' = IF err[t] # NoErr THEN held ELSE held - 1
  /\ pc' = [pc EXCEPT ![t] = "done"]
  /\ UNCHANGED <<parallelism, clearCache, cache, now, xpc, tasks, firstErr, specs,
                 err, updates, events, dockerRuns, finishedWrites, errOrder,
                 waitResult, waitErr, rerun, ctxVars, keepLogs, sideVars, outVars, logs, runVars>>

\* Start, line 89, deferred: par.Release gives the slot back.
Release(t) ==
  /\ pc[t] = "release"
  /\ held' = held - 1
  /\ pc' = [pc EXCEPT ![t] = "done"]
  /\ UNCHANGED <<parallelism, clearCache, cache, now, xpc, tasks, firstErr, specs,
                 err, updates, events, dockerRuns, finishedWrites, errOrder,
                 waitResult, waitErr, rerun, ctxVars, keepLogs, sideVars, outVars, logs, runVars>>

\* ------------------------------------------------- runSteps, step by step
\* The variables runSteps leaves alone.
doVars == <<parallelism, clearCache, cache, now, xpc, held, firstErr, specs,
            finishedWrites, errOrder, waitResult, waitErr, rerun, ctxVars,
            keepLogs, sideVars, outVars, logs>>

\* The scratch files of a task: the archive fetchRepositoryArchive
\* downloads to, the directory unzipToTempDir creates (volumeDir), and the
\* container id file of step i.
ZipFile == <<"zipFile", 0>>

VolumeDir == <<"volumeDir", 0>>

CidFile(i) == <<"cidFile", i>>

\* The image of step i, as resolved before the run (step.image).
StepImage(i) == i

\* The path of volumeDir, as a sequence of segments: a directory below
\* tempDirPrefix.
Dest == <<"tmp", "volumeDir">>

\* The names an archive entry can have: a relative or an absolute path of
\* up to MaxSegs segments, each a plain name or "..".
EntrySegs == {"a", ".."}

EntryNames == UNION {[1..n -> EntrySegs] : n \in 1..MaxSegs}

\* filepath.Clean of the path base/segs: ".." takes the last segment away,
\* and stays at the root.
RECURSIVE CleanPath(_, _)
CleanPath(base, segs) ==
  IF segs = << >> THEN base
  ELSE IF Head(segs) = ".."
    THEN CleanPath(IF base = << >> THEN base ELSE SubSeq(base, 1, Len(base) - 1), Tail(segs))
    ELSE CleanPath(Append(base, Head(segs)), Tail(segs))

\* filepath.Join(dest, f.Name), line 189: the name is appended to dest
\* behind a separator, whether it starts with one or not, and the result is
\* cleaned.
JoinPath(dest, f) == CleanPath(dest, f.segs)

\* strings.HasPrefix(fpath, outputBase), line 192, where outputBase is dest
\* with a separator at its end, line 186.
HasPrefixBase(fpath, dest) ==
  /\ Len(fpath) > Len(dest)
  /\ SubSeq(fpath, 1, Len(dest)) = dest

\* An unzip without the check of lines 192-194.
IllegalPathNever(fpath, dest) == FALSE

\* The check of lines 192-194.
IllegalPath(fpath, dest) == ~HasPrefixBase(fpath, dest)

\* The paths os.MkdirAll and os.OpenFile create for fpath, lines 196-210:
\* fpath and the directories above it that do not exist yet (dest and what
\* is above dest exist).
CreatedPaths(fpath, dest) ==
  {SubSeq(fpath, 1, k) : k \in 1..Len(fpath)} \
  {SubSeq(dest, 1, k) : k \in 0..Len(dest)}

\* The deferred calls of runSteps, run last one first.  Each removes the
\* scratch file it was registered for: os.Remove(zipFile.Name()), line 27,
\* os.RemoveAll(volumeDir), line 34, and for each step the closure of lines
\* 65-73, which removes the container id file.
RECURSIVE RunDefers(_, _)
RunDefers(stack, dsk) ==
  IF stack = << >> THEN dsk
  ELSE RunDefers(SubSeq(stack, 1, Len(stack) - 1), dsk \ {stack[Len(stack)]})

\* Err() of the context the closure of a step makes for `docker rm`, line
\* 69: context.WithTimeout(ctx, 2s) is a child of the ctx of runSteps,
\* which is runCtx, and is done as soon as that one is.
RmCtxErr(t) == RunCtxErr(t)

\* The deferred closures of the steps, lines 65-73, run on the disk dsk:
\* each reads its container id file, and if the file is there it runs
\* `docker rm -f` for the id under its context; exec starts no process
\* under a context that is done.
Cleanups(t, stack, dsk) ==
  {[step |-> i, rm |-> (RmCtxErr(t) = "nil")] :
     i \in {j \in 1..NumSteps :
              /\ \E k \in 1..Len(stack) : stack[k] = CidFile(j)
              /\ CidFile(j) \in dsk}}

\* runSteps goes on to its next statement.
Goes(t, next) ==
  /\ rpc' = [rpc EXCEPT ![t] = next]
  /\ UNCHANGED <<pc, err, tasks, updates, cleanups>>

\* runSteps returns the error e, which do wraps: the deferred calls run on
\* the disk as it is then (dsk), and do leaves with its error, lines
\* 175-181.
Returns(t, e, wrapped, stack, dsk) ==
  /\ disk' = [disk EXCEPT ![t] = RunDefers(stack, dsk)]
  /\ defers' = [defers EXCEPT ![t] = << >>]
  /\ cleanups' = [cleanups EXCEPT ![t] = Cleanups(t, stack, dsk)]
  /\ rpc' = [rpc EXCEPT ![t] = "out"]
  /\ err' = [err EXCEPT ![t] = DoError(t, RunCtxErr(t), e, wrapped)]
  /\ pc' = [pc EXCEPT ![t] = "deferred"]
  /\ UNCHANGED <<tasks, updates>>

\* What a stage adds to the events of the task.
Attempt(t, f, e) ==
  events' = [events EXCEPT ![t] =
               @ \cup {StageEvent[f]} \cup
               (IF Aborted(RunCtxErr(t), e) THEN {"aborted"} ELSE {})]

\* A stage that went well returned no error.
Fine == [exit |-> "none", is |-> "none"]

\* runSteps, lines 23-27, and fetchRepositoryArchive, lines 147-173: the
\* request fails, or no temporary file can be made, and there is no file;
\* or the copy of the body fails, and the file stays behind, since the
\* function returns no handle to it; or the archive is there and its
\* removal is deferred.
Fetch(t) ==
  /\ pc[t] = "run"
  /\ rpc[t] = "out"
  /\ \/ \E e \in StageErrors(RunCtxErr(t), 1), copied \in BOOLEAN :
          /\ Attempt(t, 1, e)
          /\ Returns(t, e, MkErr(t, RunStages[1]), defers[t],
                     IF copied THEN disk[t] \cup {ZipFile} ELSE disk[t])
     \/ /\ RunCtxErr(t) = "nil"
        /\ Attempt(t, 1, Fine)
        /\ disk' = [disk EXCEPT ![t] = @ \cup {ZipFile}]
        /\ defers' = [defers EXCEPT ![t] = Append(@, ZipFile)]
        /\ Goes(t, "unzipToTempDir")
  /\ UNCHANGED <<doVars, dockerRuns, written, zipEntry, ops>>

\* runSteps, lines 29-33, unzipToTempDir, lines 139-145, and the head of
\* unzip, lines 180-186: no directory can be made; or it is made and the
\* archive cannot be opened, and runSteps returns before it defers the
\* removal of the directory; or unzip enters its loop.
UnzipToTempDir(t) ==
  /\ pc[t] = "run"
  /\ rpc[t] = "unzipToTempDir"
  /\ Attempt(t, 2, Fine)
  /\ \/ \E made \in BOOLEAN :
          Returns(t, Fine, MkErr(t, RunStages[2]), defers[t],
                  IF made THEN disk[t] \cup {VolumeDir} ELSE disk[t])
     \/ /\ disk' = [disk EXCEPT ![t] = @ \cup {VolumeDir}]
        /\ Goes(t, "unzip")
        /\ UNCHANGED defers
  /\ UNCHANGED <<doVars, dockerRuns, written, zipEntry, ops>>

\* unzip, lines 188-231, one turn of the loop: at the end of the archive
\* unzip returns nil and runSteps defers the removal of volumeDir, line 34;
\* else the next entry f is read: a path that is not below dest is refused,
\* line 193; else the entry and the directories above it are created,
\* unless one of the file operations fails, after creating something or
\* nothing.  On an error runSteps returns before line 34.
UnzipEntry(t) ==
  /\ pc[t] = "run"
  /\ rpc[t] = "unzip"
  /\ \/ /\ defers' = [defers EXCEPT ![t] = Append(@, VolumeDir)]
        /\ Goes(t, "git init")
        /\ UNCHANGED <<written, zipEntry, disk>>
     \/ /\ zipEntry[t].n < MaxEntries
        /\ \E segs \in EntryNames, abs \in BOOLEAN, dir \in BOOLEAN :
             LET f == [n |-> zipEntry[t].n + 1, abs |-> abs, segs |-> segs, dir |-> dir]
                 fpath == JoinPath(Dest, f)
             IN /\ zipEntry' = [zipEntry EXCEPT ![t] = f]
                /\ IF IllegalPath(fpath, Dest)
                     THEN /\ Returns(t, Fine, MkErr(t, RunStages[2]), defers[t], disk[t])
                          /\ UNCHANGED written
                     ELSE \/ /\ written' = [written EXCEPT ![t] = @ \cup CreatedPaths(fpath, Dest)]
                             /\ Goes(t, "unzip")
                             /\ UNCHANGED <<disk, defers>>
                          \/ /\ written' \in {written,
                                              [written EXCEPT ![t] = @ \cup CreatedPaths(fpath, Dest)]}
                             /\ Returns(t, Fine, MkErr(t, RunStages[2]), defers[t], disk[t])
  /\ UNCHANGED <<doVars, events, dockerRuns, ops>>

\* The statement after the initial commit and after each step: the next
\* step if there is one, else git add, line 115.
AfterStep(n) == IF n < NumSteps THEN "step" ELSE "git add --all"

\* A command runSteps ran in volumeDir, and how it ended: a git command
\* (image 0) or the docker run of a step, for its image.
Ran(cmd, image, failed) == [cmd |-> cmd, image |-> image, failed |-> failed]

\* runGitCmd, lines 36-44, called at position `at` of stage f: the command
\* runs in volumeDir under the context; if it fails runSteps returns the
\* error under the message msg, else it goes on to `next`.
RunGitCmd(t, at, f, msg, next) ==
  /\ pc[t] = "run"
  /\ rpc[t] = at
  /\ \/ \E e \in StageErrors(RunCtxErr(t), f) :
          /\ ops' = [ops EXCEPT ![t] = Append(@, Ran(at, 0, TRUE))]
          /\ Attempt(t, f, e)
          /\ Returns(t, e, MkErr(t, msg), defers[t], disk[t])
     \/ /\ RunCtxErr(t) = "nil"
        /\ ops' = [ops EXCEPT ![t] = Append(@, Ran(at, 0, FALSE))]
        /\ Attempt(t, f, Fine)
        /\ Goes(t, next)
        /\ UNCHANGED <<disk, defers>>
  /\ UNCHANGED <<doVars, dockerRuns, written, zipEntry>>

\* runSteps, lines 46-48.
GitInit(t) == RunGitCmd(t, "git init", 3, "git init failed", "git add --force --all")

\* runSteps, lines 50-52.
GitAddForce(t) ==
  RunGitCmd(t, "git add --force --all", 3, "git add failed", "git commit")

\* runSteps, lines 53-55.
GitCommit(t) == RunGitCmd(t, "git commit", 3, "git commit failed", AfterStep(0))

\* The error of a step that failed, line 109: it names the image.
StepError(t, i) == [task |-> t, kind |-> RunStages[DockerStage], image |-> StepImage(i)]

\* A loop that goes on to the next step whatever the last one returned.
StepFailureIgnored(t, i) ==
  \E e \in StageErrors(RunCtxErr(t), DockerStage) :
     /\ ops' = [ops EXCEPT ![t] = Append(@, Ran("docker run", StepImage(i), TRUE))]
     /\ Attempt(t, DockerStage, e)
     /\ disk' = [disk EXCEPT ![t] = @ \cup {CidFile(i)}]
     /\ defers' = [defers EXCEPT ![t] = Append(@, CidFile(i))]
     /\ Goes(t, AfterStep(i))

\* runSteps, lines 107-110: a step that failed ends runSteps.
StepFailure(t, i) ==
  \E e \in StageErrors(RunCtxErr(t), DockerStage), cid \in BOOLEAN :
     /\ ops' = [ops EXCEPT ![t] = Append(@, Ran("docker run", StepImage(i), TRUE))]
     /\ Attempt(t, DockerStage, e)
     /\ Returns(t, e, StepError(t, i), Append(defers[t], CidFile(i)),
                IF cid THEN disk[t] \cup {CidFile(i)} ELSE disk[t])

\* runSteps, lines 57-113, one turn of the loop, for step i: no container
\* id file can be made, line 62; else the file is made and removed at once,
\* its cleanup is deferred, and docker run is started for the image of the
\* step.  docker writes the container id file when it has created the
\* container.  If docker run fails runSteps returns the error, which names
\* the image; else the loop goes on.
Step(t) ==
  /\ pc[t] = "run"
  /\ rpc[t] = "step"
  /\ LET i == dockerRuns[t] + 1
     IN \/ /\ Attempt(t, DockerStage, Fine)
           /\ Returns(t, Fine, MkErr(t, "Creating a CID file failed"), defers[t], disk[t])
           /\ UNCHANGED <<ops, dockerRuns>>
        \/ /\ dockerRuns' = [dockerRuns EXCEPT ![t] = i]
           /\ \/ StepFailure(t, i)
              \/ /\ RunCtxErr(t) = "nil"
                 /\ ops' = [ops EXCEPT ![t] = Append(@, Ran("docker run", StepImage(i), FALSE))]
                 /\ Attempt(t, DockerStage, Fine)
                 /\ disk' = [disk EXCEPT ![t] = @ \cup {CidFile(i)}]
                 /\ defers' = [defers EXCEPT ![t] = Append(@, CidFile(i))]
                 /\ Goes(t, AfterStep(i))
  /\ UNCHANGED <<doVars, written, zipEntry>>

\* runSteps, lines 115-117.
GitAddAll(t) == RunGitCmd(t, "git add --all", 5, "git add failed", "git diff")

\* runSteps, lines 125-130, and do, lines 184-203: git diff fails; or it
\* gives the diff, runSteps returns it, its deferred calls run, and do
\* builds the spec, sets it in the status and reports it.
GitDiff(t) ==
  \/ /\ RunGitCmd(t, "git diff", 5, "git diff failed", "out")
     /\ err'[t] # NoErr
  \/ /\ pc[t] = "run"
     /\ rpc[t] = "git diff"
     /\ RunCtxErr(t) = "nil"
     /\ ops' = [ops EXCEPT ![t] = Append(@, Ran("git diff", 0, FALSE))]
     /\ Attempt(t, 5, Fine)
     /\ disk' = [disk EXCEPT ![t] = RunDefers(defers[t], @)]
     /\ defers' = [defers EXCEPT ![t] = << >>]
     /\ cleanups' = [cleanups EXCEPT ![t] = Cleanups(t, defers[t], disk[t])]
     /\ rpc' = [rpc EXCEPT ![t] = "out"]
     /\ Updated(t, [tasks[t] EXCEPT !.ChangesetSpec = BuiltSpec(t)])
     /\ pc' = [pc EXCEPT ![t] = "append"]
     /\ UNCHANGED <<doVars, err, dockerRuns, written, zipEntry>>

\* ------------------------------------------------------------ the system
Next ==
  \/ \E t \in Tasks : AddTask(t)
  \/ Start
  \/ \E t \in Tasks : StartSpawn(t)
  \/ StartClose
  \/ Wait
  \/ \E t \in Tasks : DoStart(t)
  \/ \E t \in Tasks : CacheClear(t)
  \/ \E t \in Tasks : CacheGet(t)
  \/ \E t \in Tasks : HitAppend(t)
  \/ \E t \in Tasks : LogAdd(t)
  \/ \E t \in Tasks : Execute(t)
  \/ \E t \in Tasks : AppendSpec(t)
  \/ \E t \in Tasks : CacheSet(t)
  \/ \E t \in Tasks : Deferred(t)
  \/ \E t \in Tasks : ReportError(t)
  \/ \E t \in Tasks : Release(t)

\* The executor alone: every reading of the clock falls in the same tick.
Spec == Init /\ [][Next]_vars

\* ------------------------------------------------------- the environment
\* Time passes: the wall clock moves on, and never back.
Tick ==
  /\ now < MaxClock
  /\ now' = now + 1
  /\ UNCHANGED <<parallelism, clearCache, cache, xpc, tasks, pc, held, firstErr,
                 specs, err, updates, events, dockerRuns, finishedWrites,
                 errOrder, waitResult, waitErr, rerun, ctxVars, keepLogs, sideVars, outVars, logs, runVars>>

NextClock == Next \/ Tick

\* The caller runs the same campaign a second time on the same cache, after a
\* run in which no task failed: ExecuteCampaignSpec (service.go, lines 71-75)
\* builds a new executor, registers the same tasks and calls Start.
Rerun ==
  /\ xpc = "done"
  /\ ~rerun
  /\ waitErr = NoErr
  /\ rerun' = TRUE
  /\ clearCache' \in BOOLEAN
  /\ xpc' = "start"
  /\ tasks' = [t \in Registered |-> NewStatus(now)]
  /\ pc' = [t \in Tasks |-> "idle"]
  /\ held' = 0
  /\ firstErr' = NoErr
  /\ specs' = << >>
  /\ err' = [t \in Tasks |-> NoErr]
  /\ updates' = [t \in Tasks |-> << >>]
  /\ events' = [t \in Tasks |-> {}]
  /\ dockerRuns' = [t \in Tasks |-> 0]
  /\ finishedWrites' = [t \in Tasks |-> 0]
  /\ errOrder' = << >>
  /\ waitResult' = << >>
  /\ waitErr' = NoErr
  /\ logs' = [t \in Tasks |-> NoLogger]
  /\ UNCHANGED <<parallelism, cache, now, ctxVars, keepLogs, sideVars, outVars, runVars>>

\* The caller cancels the ctx it passed to Start (at any time, also before
\* Start).
Cancel ==
  /\ ~cancelled
  /\ cancelled' = TRUE
  /\ UNCHANGED <<parallelism, clearCache, cache, now, xpc, tasks, pc, held, firstErr,
                 specs, err, updates, events, dockerRuns, finishedWrites,
                 errOrder, waitResult, waitErr, rerun, expired, ctxDeadline, keepLogs, sideVars,
                 outVars, logs, runVars>>

\* The deadline of the runCtx of a task passes, while runSteps is at work
\* or after it, before do returns and its deferred cancel (line 172)
\* releases the context.
Expire(t) ==
  /\ pc[t] \in {"run", "append", "set"}
  /\ RunCtxErr(t) = "nil"
  /\ expired' = expired \cup {t}
  /\ UNCHANGED <<parallelism, clearCache, cache, now, xpc, tasks, pc, held, firstErr,
                 specs, err, updates, events, dockerRuns, finishedWrites,
                 errOrder, waitResult, waitErr, rerun, cancelled, ctxDeadline, keepLogs, sideVars,
                 outVars, logs, runVars>>

NextCtx == Next \/ Cancel \/ \E t \in Tasks : Expire(t)

\* The executor while its contexts are cancelled and time out.
SpecCtx == Init /\ [][NextCtx]_vars

\* The same, where the caller and the workers keep running: goroutines are
\* scheduled, and every call a worker makes returns.
SpecCtxLive == Init /\ [][NextCtx]_vars /\ WF_vars(Next)

\* The first task: the one whose runSteps is followed step by step.
Unit == CHOOSE t \in Tasks : \A u \in Tasks : t <= u

\* The executor with one task, for which one slot is as good as many, and
\* any setting of keepLogs.
InitDo ==
  /\ parallelism = Unit
  /\ clearCache \in BOOLEAN
  /\ cache \in {[t \in Tasks |-> IF t \in S THEN [repo |-> t, gen |-> 0] ELSE NoSpec] :
                  S \in SUBSET {Unit}}
  /\ now = 1
  /\ rerun = FALSE
  /\ cancelled = FALSE
  /\ ctxDeadline = FALSE
  /\ expired = {}
  /\ keepLogs \in BOOLEAN
  /\ FreshExecutor
  /\ OutsideInit
  /\ ServiceAtExecutor

\* The caller registers one task and runs it; in place of Execute, the
\* statements of runSteps one by one, while the context may be cancelled
\* or pass its deadline between any two of them.
NextDo ==
  \/ AddTask(Unit)
  \/ Start
  \/ StartSpawn(Unit)
  \/ StartClose
  \/ Wait
  \/ DoStart(Unit)
  \/ CacheClear(Unit)
  \/ CacheGet(Unit)
  \/ HitAppend(Unit)
  \/ LogAdd(Unit)
  \/ Fetch(Unit)
  \/ UnzipToTempDir(Unit)
  \/ UnzipEntry(Unit)
  \/ GitInit(Unit)
  \/ GitAddForce(Unit)
  \/ GitCommit(Unit)
  \/ Step(Unit)
  \/ GitAddAll(Unit)
  \/ GitDiff(Unit)
  \/ AppendSpec(Unit)
  \/ CacheSet(Unit)
  \/ Deferred(Unit)
  \/ ReportError(Unit)
  \/ Release(Unit)
  \/ Cancel
  \/ Expire(Unit)

\* One task, from AddTask to Wait, with runSteps in detail.
SpecDo == InitDo /\ [][NextDo]_vars

\* The ctx the caller passed to Start has a deadline, and it passes, before
\* the caller cancelled.
ExpireCtx ==
  /\ ~cancelled
  /\ ~ctxDeadline
  /\ ctxDeadline' = TRUE
  /\ UNCHANGED <<parallelism, clearCache, cache, now, xpc, tasks, pc, held, firstErr,
                 specs, err, updates, events, dockerRuns, finishedWrites,
                 errOrder, waitResult, waitErr, rerun, cancelled, expired, keepLogs, sideVars,
                 outVars, logs, runVars>>

NextDeadline == NextDo \/ ExpireCtx

\* The same task under a ctx that has a deadline.
SpecDeadline == InitDo /\ [][NextDeadline]_vars

NextRerun == Next \/ Rerun

\* The executor run twice in a row on one cache.
SpecRerun == Init /\ [][NextRerun]_vars

\* The executor while time passes.
SpecClock == Init /\ [][NextClock]_vars

\* ------------------------------------------------------- the task logger
\* The byte "\n", the separator of log.go line 112.
Newline == 10

\* The bytes a command writes: the letter a and the newline.
LogBytes == {97, Newline}

\* What a command can hand to Write in one call.
Payloads == UNION {[1..n -> LogBytes] : n \in 0..MaxBytes}

\* The streams of a command, log.go line 102 and part_000 lines 95-96.
Streams == {"stdout", "stderr"}

\* bytes.Split(p, "\n"), log.go line 112: the chunks of p between its
\* newlines, a last one behind the last newline included, empty or not.
RECURSIVE Split(_)
Split(p) ==
  IF \A i \in 1..Len(p) : p[i] # Newline THEN <<p>>
  ELSE LET i == CHOOSE j \in 1..Len(p) :
                  /\ p[j] = Newline
                  /\ \A k \in 1..(j - 1) : p[k] # Newline
       IN <<SubSeq(p, 1, i - 1)>> \o Split(SubSeq(p, i + 1, Len(p)))

\* string(line) for an integer line, log.go line 113: the string that
\* holds the one character with that code point, here below 128, where
\* the character is one byte.
RuneString(i) == <<i>>

\* TaskLogger.Logf("%s | %s", prefix, text), log.go lines 94-96 and 113:
\* the line it prints, with the reading of the clock in front.
Logf(at, prefix, text) == [time |-> at, prefix |-> prefix, text |-> text]

\* prefixWriter.Write, log.go lines 111-116: `for line := range` runs over
\* the indices of the chunks, counted from 0, and prints each index
\* converted to a string.
WriteLines(at, prefix, p) ==
  [k \in 1..Len(Split(p)) |-> Logf(at, prefix, RuneString(k - 1))]

\* A command writes p to one of its streams.
PrefixWriterWrite ==
  /\ Len(wrote) < MaxWrites
  /\ \E prefix \in Streams, p \in Payloads :
       /\ logFile' = logFile \o WriteLines(now, prefix, p)
       /\ wrote' = Append(wrote, [prefix |-> prefix, p |-> p, at |-> now])
  /\ UNCHANGED <<parallelism, clearCache, cache, now, xpc, tasks, pc, held, firstErr,
                 specs, err, updates, events, dockerRuns, finishedWrites,
                 errOrder, waitResult, waitErr, rerun, ctxVars, keepLogs, sideVars, logs, runVars,
                 svcVars, seenLog>>

\* A logger on its own: an executor that is given nothing to do.
InitLog ==
  /\ parallelism = 1
  /\ clearCache = FALSE
  /\ cache = [t \in Tasks |-> NoSpec]
  /\ now = 1
  /\ rerun = FALSE
  /\ cancelled = FALSE
  /\ ctxDeadline = FALSE
  /\ expired = {}
  /\ keepLogs = FALSE
  /\ FreshExecutor
  /\ OutsideInit
  /\ ServiceAtExecutor

NextLog == PrefixWriterWrite \/ Tick

\* One logger, its prefix writers and the clock.
SpecLog == InitLog /\ [][NextLog]_vars

\* ------------------------------------------- the command and the service
\* The variables of the executor and its workers, which the service leaves
\* alone until it calls AddTask.
execVars == <<clearCache, cache, now, xpc, tasks, pc, held, firstErr, specs, err,
              updates, events, dockerRuns, finishedWrites, errOrder, waitResult,
              waitErr, rerun, ctxVars, keepLogs, sideVars, logs, runVars, logFile, wrote,
              seenLog>>

\* campaigns_apply.go, lines 69-73: the condition of the if is
\* `parallelismFlag != nil || *parallelismFlag <= 0`, and parallelismFlag
\* is the pointer flagSet.Int returned at line 32, which is never nil.
OptsParallelism(j, g) == IF TRUE \/ j <= 0 THEN g ELSE j

\* The apply handler, lines 64-74: it builds the options and makes the
\* executor with them.
BuildOpts ==
  /\ spc = "opts"
  /\ parallelism' = OptsParallelism(jFlag, gomaxprocs)
  /\ spc' = "repos"
  /\ UNCHANGED <<execVars, jFlag, gomaxprocs, resolved, svcErr>>

\* ExecuteCampaignSpec, service.go lines 56-59.
ResolveRepositories ==
  /\ spc = "repos"
  /\ \/ /\ svcErr' = MkErr(0, "resolving repositories")
        /\ spc' = "returned"
     \/ /\ spc' = "images"
        /\ UNCHANGED svcErr
  /\ UNCHANGED <<execVars, parallelism, jFlag, gomaxprocs, resolved>>

\* The error of line 66: it names the step.
StepResolveError(i) == [task |-> 0, kind |-> "step", step |-> i]

\* A loop that leaves the image of a step unset and goes on to AddTask.
ResolveImageLax ==
  /\ spc = "images"
  /\ \/ /\ spc' = "exec"
        /\ UNCHANGED <<svcErr, resolved>>
     \/ /\ resolved' = resolved + 1
        /\ spc' = IF resolved' = NumSteps THEN "exec" ELSE "images"
        /\ UNCHANGED svcErr
  /\ UNCHANGED <<execVars, parallelism, jFlag, gomaxprocs>>

\* ExecuteCampaignSpec, service.go lines 63-69, one turn of the loop:
\* getDockerImageContentDigest fails for the step and the function
\* returns, or its digest becomes the image of the step; after the last
\* step the function goes on to register the tasks.
ResolveImage ==
  /\ spc = "images"
  /\ \/ /\ svcErr' = StepResolveError(resolved + 1)
        /\ spc' = "returned"
        /\ UNCHANGED resolved
     \/ /\ resolved' = resolved + 1
        /\ spc' = IF resolved' = NumSteps THEN "exec" ELSE "images"
        /\ UNCHANGED svcErr
  /\ UNCHANGED <<execVars, parallelism, jFlag, gomaxprocs>>

\* ExecuteCampaignSpec, service.go line 76: what Wait returned is returned.
Return ==
  /\ spc = "exec"
  /\ xpc = "done"
  /\ svcErr' = waitErr
  /\ spc' = "returned"
  /\ UNCHANGED <<execVars, parallelism, jFlag, gomaxprocs, resolved>>

\* The values of -j: a negative one, none, one job, as many jobs as tasks.
JFlags == {-1, 0, 1, MaxTasks}

\* The values of GOMAXPROCS: one processor, or as many as tasks.
Procs == {1, MaxTasks}

\* The command starts: -j is not given, or given with some value, on a
\* machine with some number of processors; the cache holds an entry for
\* every repository, which is used or cleared.
InitSvc ==
  /\ jFlag \in JFlags
  /\ gomaxprocs \in Procs
  /\ parallelism = 0
  /\ spc = "opts"
  /\ resolved = 0
  /\ svcErr = NoErr
  /\ clearCache \in BOOLEAN
  /\ cache = [t \in Tasks |-> [repo |-> t, gen |-> 0]]
  /\ now = 1
  /\ rerun = FALSE
  /\ cancelled = FALSE
  /\ ctxDeadline = FALSE
  /\ expired = {}
  /\ keepLogs = FALSE
  /\ FreshExecutor
  /\ OutsideInit

\* The executor is used by the service between lines 71 and 76 only.
NextSvc ==
  \/ BuildOpts
  \/ ResolveRepositories
  \/ ResolveImage
  \/ (spc = "exec" /\ Next)
  \/ Return

\* `src campaigns apply`, from the flags to the return of
\* ExecuteCampaignSpec.
SpecSvc == InitSvc /\ [][NextSvc]_vars

\* -------------------------------------------------------- the log manager
\* The states a TaskLogger of the manager can be in: as newTaskLogger made
\* it, marked errored by do, closed by do (executor.go, lines 163-168).
LoggerStates ==
  LET tl == newTaskLogger(keepLogs)
  IN {tl, MarkErrored(tl), Close(tl), Close(MarkErrored(tl))}

\* TaskLogger.Close, log.go lines 73-76: the error of tl.f.Close(), handed
\* on as it is.  Closing an *os.File that is closed already fails; closing
\* an open one fails when the system call does (ioFails).
CloseError(t, tl, ioFails) ==
  IF tl.file # "open" THEN MkErr(t, "file already closed")
  ELSE IF ioFails THEN MkErr(t, "close failed")
  ELSE NoErr

\* The callback of Range has not been called for a logger.
NotCalled == [task |-> 0, kind |-> "not called"]

\* A callback that stops the Range at the first logger that fails.
CallbackReturnFailFast(e) == e = NoErr

\* The value the callback of Range returns, log.go line 46: go on.
CallbackReturn(e) == TRUE

\* LogManager.Close, log.go lines 36-39: errs is nil, and Range starts; it
\* ends at once on an empty map.
LogManagerClose ==
  /\ lmpc = "idle"
  /\ lmErrs' = << >>
  /\ lmClosed' = [t \in DOMAIN lmTasks |-> NotCalled]
  /\ lmpc' = IF DOMAIN lmTasks = {} THEN "ranged" ELSE "range"
  /\ UNCHANGED <<lmTasks, lmRet, rrVars, vdVars>>
  /\ UNCHANGED coreVars

\* The callback of Range, log.go lines 39-47, for a logger Range has not
\* handed out yet, in whatever order sync.Map gives them: close it, and
\* append what Close returned to errs if it is an error.  Range ends when
\* the callback returns false or no logger is left.
RangeCallback(t) ==
  /\ lmpc = "range"
  /\ t \in DOMAIN lmTasks
  /\ lmClosed[t] = NotCalled
  /\ \E ioFails \in BOOLEAN :
       LET e == CloseError(t, lmTasks[t], ioFails)
           left == {u \in DOMAIN lmTasks : u # t /\ lmClosed[u] = NotCalled}
       IN /\ lmTasks' = [lmTasks EXCEPT ![t] = Close(@)]
          /\ lmClosed' = [lmClosed EXCEPT ![t] = e]
          /\ lmErrs' = IF e # NoErr THEN Append(lmErrs, e) ELSE lmErrs
          /\ lmpc' = IF CallbackReturn(e) /\ left # {} THEN "range" ELSE "ranged"
  /\ UNCHANGED <<lmRet, rrVars, vdVars>>
  /\ UNCHANGED coreVars

\* LogManager.Close, log.go line 49: `return errs`.  errs is a
\* *multierror.Error, so what the caller gets as an error is an interface
\* value that holds the pointer: it is never the nil interface, and the
\* pointer in it is nil when nothing was appended.
LogManagerReturn ==
  /\ lmpc = "ranged"
  /\ lmRet' = [isNil |-> FALSE, pointer |-> IF lmErrs = << >> THEN "nil" ELSE "set",
               Errors |-> lmErrs]
  /\ lmpc' = "returned"
  /\ UNCHANGED <<lmTasks, lmClosed, lmErrs, rrVars, vdVars>>
  /\ UNCHANGED coreVars

\* A log manager with the loggers of any of the tasks, each in any of its
\* states, beside an executor at rest.
InitLM ==
  /\ parallelism = 1
  /\ clearCache = FALSE
  /\ cache = [t \in Tasks |-> NoSpec]
  /\ now = 1
  /\ rerun = FALSE
  /\ cancelled = FALSE
  /\ ctxDeadline = FALSE
  /\ expired = {}
  /\ keepLogs \in BOOLEAN
  /\ FreshExecutor
  /\ LogFileInit
  /\ ServiceAtExecutor
  /\ lmTasks \in UNION {[S -> LoggerStates] : S \in SUBSET Tasks}
  /\ lmpc = "idle"
  /\ lmClosed = << >>
  /\ lmErrs = << >>
  /\ lmRet = << >>
  /\ ResolverIdle
  /\ ValidatorIdle

NextLM ==
  \/ LogManagerClose
  \/ \E t \in Tasks : RangeCallback(t)
  \/ LogManagerReturn

\* One call of LogManager.Close.
SpecLM == InitLM /\ [][NextLM]_vars

\* --------------------------------------------------- ResolveRepositories
\* Repository.ID of the repositories the backend knows.
RepoIDs == 1..MaxRepos

\* A nil *Repository.
NilRepo == 0

\* What Request.Do returns to the resolvers, (ok, err): the answer was
\* decoded into result; or the request failed with an error; or it was
\* not carried through and there is no error either.  The resolvers test
\* `err != nil || !ok`, lines 181 and 220.
DoOutcomes ==
  {[ok |-> TRUE, err |-> NoErr], [ok |-> FALSE, err |-> MkErr(0, "request failed")],
   [ok |-> FALSE, err |-> NoErr]}

DoFine == [ok |-> TRUE, err |-> NoErr]

\* The lists of search results an answer can hold, by repository id: one
\* repository can be in it more than once (a match per file).
ResultLists == UNION {[1..n -> RepoIDs] : n \in 0..MaxRepos}

\* The `on` clauses: query and name tell whether
\* on.RepositoriesMatchingQuery and on.Repository are set, do is what Do
\* returns for the request of the clause and results what the answer
\* holds.
OnClauses ==
  {[query |-> FALSE, name |-> FALSE, do |-> DoFine, results |-> << >>]} \cup
  {[query |-> FALSE, name |-> TRUE, do |-> d, results |-> << >>] :
     d \in DoOutcomes \ {DoFine}} \cup
  {[query |-> FALSE, name |-> TRUE, do |-> DoFine, results |-> <<r>>] : r \in RepoIDs} \cup
  {[query |-> TRUE, name |-> FALSE, do |-> d, results |-> << >>] :
     d \in DoOutcomes \ {DoFine}} \cup
  {[query |-> TRUE, name |-> FALSE, do |-> DoFine, results |-> l] : l \in ResultLists} \cup
  {[query |-> TRUE, name |-> TRUE, do |-> DoFine, results |-> <<r>>] : r \in RepoIDs}

\* ErrMalformedOnQueryOrRepository.
ErrMalformedOnQueryOrRepository == MkErr(0, "malformed on")

\* The loop of ResolveRepositories over repos, lines 138-143, and the one
\* of resolveRepositorySearch, lines 226-232: a repository is appended
\* unless its id is in seen.
RECURSIVE AppendUnseen(_, _, _)
AppendUnseen(final, seen, repos) ==
  IF repos = << >> THEN [final |-> final, seen |-> seen]
  ELSE IF Head(repos) \in seen THEN AppendUnseen(final, seen, Tail(repos))
  ELSE AppendUnseen(Append(final, Head(repos)), seen \cup {Head(repos)}, Tail(repos))

\* resolveRepositorySearch, lines 210-234.
resolveRepositorySearch(on) ==
  IF on.do.err # NoErr \/ ~on.do.ok
    THEN [repos |-> << >>, err |-> on.do.err]
    ELSE [repos |-> AppendUnseen(<< >>, {}, on.results).final, err |-> NoErr]

\* resolveRepositoryName, lines 176-185.
resolveRepositoryName(on) ==
  IF on.do.err # NoErr \/ ~on.do.ok
    THEN [repo |-> NilRepo, err |-> on.do.err]
    ELSE [repo |-> on.results[1], err |-> NoErr]

\* ResolveRepositoriesOn, lines 149-163.
ResolveRepositoriesOn(on) ==
  IF on.query THEN resolveRepositorySearch(on)
  ELSE IF on.name
    THEN LET r == resolveRepositoryName(on)
         IN IF r.err # NoErr THEN [repos |-> << >>, err |-> r.err]
            ELSE [repos |-> <<r.repo>>, err |-> NoErr]
  ELSE [repos |-> << >>, err |-> ErrMalformedOnQueryOrRepository]

\* ResolveRepositories, lines 132-144, one turn of the loop over spec.On:
\* an error of the clause is wrapped and returned with a nil list; else
\* the repositories not seen yet are appended to final.  repo.ID of a nil
\* repository is a nil pointer dereference: the call panics.
ResolveLoop ==
  /\ rrpc = "loop"
  /\ rrIdx < Len(rrOn)
  /\ LET on == rrOn[rrIdx + 1]
         r == ResolveRepositoriesOn(on)
     IN IF r.err # NoErr
          THEN /\ rrRet' = [repos |-> << >>, panicked |-> FALSE,
                            err |-> [task |-> 0, kind |-> "resolving", cause |-> r.err.kind]]
               /\ rrpc' = "returned"
               /\ UNCHANGED <<rrIdx, rrFinal, rrSeen>>
        ELSE IF \E i \in 1..Len(r.repos) : r.repos[i] = NilRepo
          THEN /\ rrRet' = [repos |-> << >>, panicked |-> TRUE, err |-> NoErr]
               /\ rrpc' = "returned"
               /\ UNCHANGED <<rrIdx, rrFinal, rrSeen>>
        ELSE LET a == AppendUnseen(rrFinal, rrSeen, r.repos)
             IN /\ rrFinal' = a.final
                /\ rrSeen' = a.seen
                /\ rrIdx' = rrIdx + 1
                /\ UNCHANGED <<rrpc, rrRet>>
  /\ UNCHANGED <<rrOn, lmVars, vdVars>>
  /\ UNCHANGED coreVars

\* ResolveRepositories, line 146: return final, nil.
ResolveDone ==
  /\ rrpc = "loop"
  /\ rrIdx = Len(rrOn)
  /\ rrRet' = [repos |-> rrFinal, panicked |-> FALSE, err |-> NoErr]
  /\ rrpc' = "returned"
  /\ UNCHANGED <<rrOn, rrIdx, rrFinal, rrSeen, lmVars, vdVars>>
  /\ UNCHANGED coreVars

\* The executor and the service at rest, with nothing to do.
CoreAtRest ==
  /\ parallelism = 1
  /\ clearCache = FALSE
  /\ cache = [t \in Tasks |-> NoSpec]
  /\ now = 1
  /\ rerun = FALSE
  /\ cancelled = FALSE
  /\ ctxDeadline = FALSE
  /\ expired = {}
  /\ keepLogs = FALSE
  /\ FreshExecutor
  /\ LogFileInit
  /\ ServiceAtExecutor

\* ResolveRepositories is called with up to MaxOn clauses: lines 128-129.
InitRR ==
  /\ CoreAtRest
  /\ LogManagerIdle
  /\ ValidatorIdle
  /\ rrOn \in UNION {[1..n -> OnClauses] : n \in 0..MaxOn}
  /\ rrpc = "loop"
  /\ rrIdx = 0
  /\ rrFinal = << >>
  /\ rrSeen = {}
  /\ rrRet = << >>

NextRR == ResolveLoop \/ ResolveDone

\* One call of ResolveRepositories.
SpecRR == InitRR /\ [][NextRR]_vars

\* ---------------------------------------------------------- the validator
\* The id the backend gives the external service it added.
ExtSvcID == "extsvc"

\* A deferred function that deletes the service whatever the spec says.
DeleteOnReturnAlways(id, deleteWhenDone) == id # ""

\* The condition of the function validate defers, line 182.
DeleteOnReturn(id, deleteWhenDone) == id # "" /\ deleteWhenDone

\* The calls of deleteExternalService after the deferred function of
\* validate, lines 181-185, has run, if it has been deferred.
RunDeferred ==
  IF vdDeferred /\ DeleteOnReturn(vdExt.id, vdSpec.DeleteWhenDone)
    THEN Append(vdDeletes, vdExt.id)
    ELSE vdDeletes

\* validate returns e, and what it deferred runs.
ValidateReturns(e) ==
  /\ vdRet' = [called |-> TRUE, err |-> e, panicked |-> FALSE]
  /\ vdDeletes' = RunDeferred
  /\ vdpc' = "returned"

\* validate panics: what it deferred runs, and the panic goes up.
ValidatePanics ==
  /\ vdRet' = [called |-> TRUE, err |-> NoErr, panicked |-> TRUE]
  /\ vdDeletes' = RunDeferred
  /\ vdpc' = "panicked"

\* validate goes on to its next statement.
Continues(next) ==
  /\ vdpc' = next
  /\ UNCHANGED <<vdRet, vdDeletes>>

\* validator.graphQL, lines 599-609, goes through vd.client when there
\* is one, and vdClient.graphQL adds c.sessionCookie to the request, line
\* 547: Request.AddCookie reads the fields of the cookie, a nil pointer
\* dereference when the client has no session cookie.
GraphQLPanics == ~vdClient.nil /\ ~vdClient.session

\* validate, lines 152-172: the template, its execution or the JSON of
\* the script fails; else the first admin is created if the spec names
\* one.
validateParse ==
  /\ vdpc = "parse"
  /\ \E ok \in BOOLEAN :
       IF ok THEN Continues(IF vdSpec.FirstAdmin THEN "signIn" ELSE "ext")
       ELSE ValidateReturns(MkErr(0, "script"))
  /\ UNCHANGED <<vdSpec, vdClient, vdNew, vdAuth, vdExt, vdDeferred, vdTries,
                 vdAnswers, vdWait>>
  /\ UNCHANGED <<lmVars, rrVars>>
  /\ UNCHANGED coreVars

\* What newClient returns, lines 416-448: the error of http.Get, line 419;
\* the error of ReadAll, line 425; when the page holds no CSRF token,
\* `return nil, err` at line 430, where err is the error of ReadAll, which
\* is nil there; the error of line 440 when there is no CSRF cookie; else
\* the client.
NewClientReturns ==
  {[called |-> TRUE, client |-> NilClient, err |-> MkErr(0, "http.Get")],
   [called |-> TRUE, client |-> NilClient, err |-> MkErr(0, "ReadAll")],
   [called |-> TRUE, client |-> NilClient, err |-> NoErr],
   [called |-> TRUE, client |-> NilClient, err |-> MkErr(0, "cookie not found")],
   [called |-> TRUE, client |-> NewVdClient, err |-> NoErr]}

\* signIn, lines 365-369, and siteAdminInit, lines 340-344: newClient is
\* called, and its error is returned if it has one.  createFirstAdmin,
\* lines 585-592, goes on with siteAdminInit when signIn returned an error
\* and returns the error of siteAdminInit, which validate returns.
newClient ==
  /\ vdpc \in {"signIn", "siteAdminInit"}
  /\ \E r \in NewClientReturns :
       /\ vdNew' = r
       /\ IF r.err = NoErr
            THEN Continues(IF vdpc = "signIn" THEN "signIn auth" ELSE "siteAdminInit auth")
          ELSE IF vdpc = "signIn" THEN Continues("siteAdminInit")
          ELSE ValidateReturns(r.err)
  /\ UNCHANGED <<vdSpec, vdClient, vdAuth, vdExt, vdDeferred, vdTries, vdAnswers, vdWait>>
  /\ UNCHANGED <<lmVars, rrVars>>
  /\ UNCHANGED coreVars

\* What authenticate returns, lines 453-499, and whether it has stored the
\* session cookie in the client: an error of the request, or the body of
\* an answer that is not 200; when the answer has no session cookie,
\* `return err` at line 489, where err is the error of Do, which is nil
\* there; with the cookie stored, the error of currentUserID, or nil.
AuthenticateReturns ==
  {[called |-> TRUE, err |-> MkErr(0, "request"), stored |-> FALSE],
   [called |-> TRUE, err |-> MkErr(0, "status"), stored |-> FALSE],
   [called |-> TRUE, err |-> NoErr, stored |-> FALSE],
   [called |-> TRUE, err |-> MkErr(0, "currentUserID"), stored |-> TRUE],
   [called |-> TRUE, err |-> NoErr, stored |-> TRUE]}

\* signIn, lines 371-384, and siteAdminInit, lines 346-361: authenticate
\* is called on the client newClient returned, which reads c.baseURL at
\* line 459: a nil pointer dereference on a nil client.  With no error
\* the client is returned and createFirstAdmin stores it, line 595.
authenticate ==
  /\ vdpc \in {"signIn auth", "siteAdminInit auth"}
  /\ IF vdNew.client.nil
       THEN /\ ValidatePanics
            /\ UNCHANGED <<vdAuth, vdClient>>
       ELSE \E r \in AuthenticateReturns :
              /\ vdAuth' = r
              /\ IF r.err = NoErr
                   THEN /\ vdClient' = [nil |-> FALSE, session |-> r.stored]
                        /\ Continues("ext")
                 ELSE /\ UNCHANGED vdClient
                      /\ IF vdpc = "signIn auth" THEN Continues("siteAdminInit")
                         ELSE ValidateReturns(r.err)
  /\ UNCHANGED <<vdSpec, vdNew, vdExt, vdDeferred, vdTries, vdAnswers, vdWait>>
  /\ UNCHANGED <<lmVars, rrVars>>
  /\ UNCHANGED coreVars

\* What addExternalService returns, lines 224-241: the error of
\* MarshalJSON with no id, or resp.AddExternalService.ID and the error of
\* graphQL, whatever the two are.
AddReturns ==
  {[called |-> TRUE, id |-> i, err |-> e] :
     i \in {"", ExtSvcID}, e \in {NoErr, MkErr(0, "addExternalService")}}

\* validate, lines 174-186: with a display name in the spec the service
\* is added; its error is returned, and else the deletion is deferred.
addExternalService ==
  /\ vdpc = "ext"
  /\ IF ~vdSpec.ExternalService
       THEN /\ Continues("wait")
            /\ UNCHANGED <<vdExt, vdDeferred>>
     ELSE IF GraphQLPanics
       THEN /\ ValidatePanics
            /\ UNCHANGED <<vdExt, vdDeferred>>
     ELSE \E r \in AddReturns :
            /\ vdExt' = r
            /\ IF r.err # NoErr
                 THEN /\ ValidateReturns(r.err)
                      /\ UNCHANGED vdDeferred
                 ELSE /\ vdDeferred' = TRUE
                      /\ Continues("wait")
  /\ UNCHANGED <<vdSpec, vdClient, vdNew, vdAuth, vdTries, vdAnswers, vdWait>>
  /\ UNCHANGED <<lmVars, rrVars>>
  /\ UNCHANGED coreVars

\* What listClonedRepos returns, lines 298-320: the names in the answer,
\* none, one or more, and the error of graphQL.
ListAnswers ==
  {[names |-> n, err |-> e] : n \in 0..2, e \in {NoErr, MkErr(0, "listClonedRepos")}}

\* A loop that makes one try more.
LoopGoesOnOnceMore(i, maxTries) == i <= maxTries

\* The condition of the loop of waitRepoCloned, line 325.
LoopGoesOn(i, maxTries) == i < maxTries

\* waitRepoCloned, lines 322-336, one turn of its loop or its end, and
\* validate, lines 188-197: the error of the listing is returned at once,
\* one name in the listing is success, anything else is slept over; and
\* when the loop is over the repository is not cloned, which validate
\* returns as an error.
waitRepoCloned ==
  /\ vdpc = "wait"
  /\ IF ~vdSpec.WaitRepoCloned
       THEN /\ Continues("search")
            /\ UNCHANGED <<vdTries, vdAnswers, vdWait>>
     ELSE IF ~LoopGoesOn(vdTries, vdSpec.MaxTries)
       THEN /\ vdWait' = [called |-> TRUE, cloned |-> FALSE, err |-> NoErr]
            /\ ValidateReturns(MkErr(0, "repo didn't clone"))
            /\ UNCHANGED <<vdTries, vdAnswers>>
     ELSE IF GraphQLPanics
       THEN /\ ValidatePanics
            /\ UNCHANGED <<vdTries, vdAnswers, vdWait>>
     ELSE \E a \in ListAnswers :
            /\ vdAnswers' = Append(vdAnswers, a)
            /\ IF a.err # NoErr
                 THEN /\ vdWait' = [called |-> TRUE, cloned |-> FALSE, err |-> a.err]
                      /\ ValidateReturns(a.err)
                      /\ UNCHANGED vdTries
               ELSE IF a.names = 1
                 THEN /\ vdWait' = [called |-> TRUE, cloned |-> TRUE, err |-> NoErr]
                      /\ Continues("search")
                      /\ UNCHANGED vdTries
               ELSE /\ vdTries' = vdTries + 1
                    /\ Continues("wait")
                    /\ UNCHANGED vdWait
  /\ UNCHANGED <<vdSpec, vdClient, vdNew, vdAuth, vdExt, vdDeferred>>
  /\ UNCHANGED <<lmVars, rrVars>>
  /\ UNCHANGED coreVars

\* What searchMatchCount returns, lines 268-282: the match count of the
\* answer and the error of graphQL.
SearchReturns ==
  {[count |-> c, err |-> e] : c \in {0, 1}, e \in {NoErr, MkErr(0, "searchMatchCount")}}

\* validate, lines 199-209: the search, when the spec has a query, must
\* not fail and must match; then validate returns nil.
searchMatchCount ==
  /\ vdpc = "search"
  /\ IF ~vdSpec.SearchQuery THEN ValidateReturns(NoErr)
     ELSE IF GraphQLPanics THEN ValidatePanics
     ELSE \E r \in SearchReturns :
            IF r.err # NoErr THEN ValidateReturns(r.err)
            ELSE IF r.count = 0 THEN ValidateReturns(MkErr(0, "no results"))
            ELSE ValidateReturns(NoErr)
  /\ UNCHANGED <<vdSpec, vdClient, vdNew, vdAuth, vdExt, vdDeferred, vdTries,
                 vdAnswers, vdWait>>
  /\ UNCHANGED <<lmVars, rrVars>>
  /\ UNCHANGED coreVars

\* validate is called with any script: the fields tell whether
\* FirstAdmin.Username, ExternalService.DisplayName, WaitRepoCloned.Repo
\* and SearchQuery are set.
InitVd ==
  /\ CoreAtRest
  /\ LogManagerIdle
  /\ ResolverIdle
  /\ vdSpec \in [FirstAdmin : BOOLEAN, ExternalService : BOOLEAN,
                 DeleteWhenDone : BOOLEAN, WaitRepoCloned : BOOLEAN,
                 MaxTries : -1..MaxTries, SearchQuery : BOOLEAN]
  /\ vdpc = "parse"
  /\ ValidatorFresh

NextVd ==
  \/ validateParse
  \/ newClient
  \/ authenticate
  \/ addExternalService
  \/ waitRepoCloned
  \/ searchMatchCount

\* One call of validate.
SpecVd == InitVd /\ [][NextVd]_vars

\* validate is one thread of control, which goes on as long as it can: no
\* call it makes blocks for ever.
SpecVdLive == SpecVd /\ WF_vars(NextVd)

\* ---------------------------------------------------------------- claims
\* The worker of t holds a slot of the limiter: from Acquire to Release.
HoldsSlot(t) == pc[t] \notin {"idle", "done"}

\* The worker of t is inside do.
InPipeline(t) == pc[t] \in {"cache", "hit", "log", "run", "append", "set", "deferred"}

\* do has returned for t: its terminal status has been reported.
Terminal(t) == pc[t] \in {"error", "release", "done"}

\* Number of positions of seq that hold x.
Count(seq, x) == Cardinality({i \in 1..Len(seq) : seq[i] = x})

\* C1: at no time do more than Parallelism tasks hold a slot of the
\* scheduler, so no more than Parallelism are inside their pipeline or
\* running steps.
C1_ParallelismBound ==
  /\ held <= parallelism
  /\ Cardinality({t \in Tasks : HoldsSlot(t)}) <= parallelism
  /\ Cardinality({t \in Tasks : InPipeline(t)}) <= parallelism
  /\ Cardinality({t \in Tasks : pc[t] = "run"}) <= parallelism

\* The limiter is full while Start still has a task to enqueue, and a
\* holder of a slot is about to run its steps.
C1_Witness ==
  /\ xpc = "start"
  /\ held = parallelism
  /\ \E t \in Registered : pc[t] = "idle"
  /\ \E t \in Registered : pc[t] = "run"

\* C2: when Wait has returned and no task ended with an error, every
\* registered task is in its terminal state, the error is nil, and the
\* returned list holds the spec of every registered task exactly once and
\* nothing else.
C2_WaitReturnsAllSpecs ==
  (xpc = "done" /\ \A t \in Registered : err[t] = NoErr) =>
     /\ \A t \in Registered : pc[t] = "done" /\ tasks[t].FinishedAt # 0
     /\ waitErr = NoErr
     /\ Len(waitResult) = Cardinality(Registered)
     /\ \A t \in Registered :
          /\ tasks[t].ChangesetSpec.repo = t
          /\ Count(waitResult, tasks[t].ChangesetSpec) = 1

\* Wait returned the specs of all MaxTasks tasks, which ran side by side and
\* completed in another order than they were registered in.
C2_Witness ==
  /\ xpc = "done"
  /\ waitErr = NoErr
  /\ Len(waitResult) = MaxTasks
  /\ parallelism > 1
  /\ waitResult[1].repo = MaxTasks

\* C3: a task that failed takes no other task with it.  Every error is the
\* error of the pipeline of the task that carries it; Start enqueues every
\* registered task whatever failed before; and when Wait has returned, every
\* registered task has run its own pipeline from its start to its terminal
\* status.
C3_FailureIsolated ==
  (\E u \in Registered : err[u] # NoErr) =>
     /\ \A t \in Registered :
          /\ err[t] # NoErr => err[t].task = t
          /\ tasks[t].Err # NoErr => tasks[t].Err = err[t]
     /\ xpc \in {"wait", "done"} => \A t \in Registered : pc[t] # "idle"
     /\ xpc = "done" =>
          \A t \in Registered :
             /\ pc[t] = "done"
             /\ Len(updates[t]) >= 2
             /\ tasks[t].StartedAt # 0
             /\ tasks[t].FinishedAt # 0
             /\ tasks[t].Err = err[t]

\* With one slot only, a task failed and gave its slot back; the task that
\* Start enqueued next has run all its steps and built its spec.
C3_Witness ==
  /\ parallelism = 1
  /\ firstErr # NoErr
  /\ \E u, t \in Registered :
       /\ pc[u] = "done"
       /\ tasks[u].Err # NoErr
       /\ pc[t] = "set"
       /\ dockerRuns[t] = NumSteps
       /\ tasks[t].ChangesetSpec = [repo |-> t, gen |-> 1]

\* C4: when Wait has returned and a task ended with an error, the returned
\* list is nil and the returned error is the error of the first task that
\* handed one to par.Error.
C4_FirstErrorNilResult ==
  (xpc = "done" /\ \E t \in Registered : err[t] # NoErr) =>
     /\ waitResult = << >>
     /\ waitErr # NoErr
     /\ errOrder # << >>
     /\ waitErr = tasks[Head(errOrder)].Err
     /\ waitErr.task = Head(errOrder)

\* Wait returned after two tasks reported errors, the second registered
\* first, while a spec had been collected.
C4_Witness ==
  /\ xpc = "done"
  /\ Len(errOrder) >= 2
  /\ errOrder[1] > errOrder[2]
  /\ specs # << >>
  /\ waitResult = << >>

\* C5: the terminal status of every task has exactly one of ChangesetSpec
\* and Err set.
C5_SpecXorErr ==
  \A t \in Registered :
     Terminal(t) => ((tasks[t].ChangesetSpec # NoSpec) # (tasks[t].Err # NoErr))

\* C6: FinishedAt of a task is assigned at most once, and exactly once by
\* the time the task is terminal.
C6_FinishedAtOnce ==
  \A t \in Registered :
     /\ finishedWrites[t] <= 1
     /\ Terminal(t) => finishedWrites[t] = 1

\* C7: the timestamps of a terminal task are in order, EnqueuedAt <=
\* StartedAt <= FinishedAt, all of them set; and the first status reported
\* for a task has StartedAt set and FinishedAt unset, so that no status with
\* FinishedAt set is reported before one with StartedAt set.
C7_TimestampsOrdered ==
  \A t \in Registered :
     /\ Terminal(t) =>
          /\ 1 <= tasks[t].EnqueuedAt
          /\ tasks[t].EnqueuedAt <= tasks[t].StartedAt
          /\ tasks[t].StartedAt <= tasks[t].FinishedAt
     /\ \A i \in 1..Len(updates[t]) :
          /\ updates[t][i].StartedAt # 0
          /\ updates[t][i].EnqueuedAt <= updates[t][i].StartedAt
          /\ updates[t][i].FinishedAt # 0 =>
               /\ i > 1
               /\ updates[t][1].FinishedAt = 0
               /\ updates[t][i].StartedAt <= updates[t][i].FinishedAt

\* A task is terminal whose three timestamps are not all the same reading
\* of the clock: time passed while it was enqueued or while it ran.
C7_Witness ==
  \E t \in Registered :
     /\ Terminal(t)
     /\ tasks[t].EnqueuedAt < tasks[t].FinishedAt
     /\ Len(updates[t]) >= 2
     /\ \E u \in Registered : tasks[u].StartedAt < tasks[u].FinishedAt

\* C8: a task that hit the cache ran with ClearCache unset, reports
\* Cached with the entry of the cache as its spec and no error, has that
\* spec in the aggregate list exactly once, and did nothing but the lookup:
\* no log, no archive, no workspace, no container, no cache write.  And a
\* lookup that finds an entry is a hit: a task goes on to execute only when
\* there was none.
C8_CacheHit ==
  \A t \in Registered :
     /\ (pc[t] = "hit" \/ tasks[t].Cached) =>
          /\ ~clearCache
          /\ tasks[t].Cached
          /\ tasks[t].ChangesetSpec # NoSpec
          /\ tasks[t].ChangesetSpec = cache[cacheKey(t)]
          /\ tasks[t].ChangesetSpec.gen < Gen
          /\ err[t] = NoErr /\ tasks[t].Err = NoErr
          /\ events[t] = {"cache.Get"}
          /\ dockerRuns[t] = 0
          /\ Count(specs, tasks[t].ChangesetSpec) = IF pc[t] = "hit" THEN 0 ELSE 1
          /\ xpc = "done" => Count(waitResult, tasks[t].ChangesetSpec) =
                               IF waitErr = NoErr THEN 1 ELSE 0
     /\ (~clearCache /\ pc[t] \in {"log", "run"}) => cache[cacheKey(t)] = NoSpec

\* Wait returned the cached spec of a task that hit the cache.
C8_Witness ==
  /\ xpc = "done"
  /\ \E t \in Registered :
       /\ tasks[t].Cached
       /\ pc[t] = "done"
       /\ waitResult # << >>
       /\ \E i \in 1..Len(waitResult) : waitResult[i] = [repo |-> t, gen |-> 0]

\* C9 as stated: in a second run on the cache of a first run in which every
\* task succeeded, with ClearCache unset, every terminal task reports Cached
\* and no container is run.
C9_SecondRunAllCached ==
  (rerun /\ ~clearCache) =>
     \A t \in Registered :
        /\ dockerRuns[t] = 0
        /\ Terminal(t) => tasks[t].Cached

\* C9, amended: in such a second run no container is run and the cache is
\* not written, every task finds the entry of its key, and every terminal
\* task either reports Cached, with no error, or failed in the cache lookup
\* itself.
C9_SecondRunCachedUnlessGetFails ==
  (rerun /\ ~clearCache) =>
     \A t \in Registered :
        /\ dockerRuns[t] = 0
        /\ events[t] \subseteq {"cache.Get"}
        /\ cache[cacheKey(t)] # NoSpec
        /\ Terminal(t) =>
             \/ tasks[t].Cached /\ tasks[t].Err = NoErr
             \/ ~tasks[t].Cached /\ tasks[t].Err = MkErr(t, "checking cache")

\* The second run is over: Wait returned, without error, the cached specs
\* of all MaxTasks tasks, one of them built by the first run.
C9_Witness ==
  /\ rerun
  /\ ~clearCache
  /\ xpc = "done"
  /\ waitErr = NoErr
  /\ Len(waitResult) = MaxTasks
  /\ \A t \in Tasks : tasks[t].Cached
  /\ \E t \in Tasks : tasks[t].ChangesetSpec = [repo |-> t, gen |-> 1]

\* C10: with ClearCache set a task never looks the key up and never
\* reports Cached; once past the cache stage it has called Clear; if Clear
\* failed it ends with that error having created no log and run no step;
\* if Clear succeeded the entry is gone and the task goes on to its log and
\* steps, so that a task that ends without error ran every step and carries
\* a spec built in this run.
C10_ClearCache ==
  clearCache =>
     \A t \in Registered :
        /\ "cache.Get" \notin events[t]
        /\ ~tasks[t].Cached
        /\ \A i \in 1..Len(updates[t]) : ~updates[t][i].Cached
        /\ pc[t] \notin {"idle", "spawned", "cache"} => "cache.Clear" \in events[t]
        /\ pc[t] # "hit"
        /\ err[t].kind = "clearing cache" =>
             /\ events[t] = {"cache.Clear"}
             /\ dockerRuns[t] = 0
             /\ tasks[t].ChangesetSpec = NoSpec
             /\ pc[t] \in {"deferred", "error", "release", "done"}
        /\ pc[t] \in {"log", "run"} => cache[cacheKey(t)] = NoSpec
        /\ (pc[t] \notin {"idle", "spawned", "cache", "log"}
              /\ err[t].kind \notin {"clearing cache", "creating log file"}) =>
             "log" \in events[t]
        /\ (Terminal(t) /\ tasks[t].Err = NoErr) =>
             /\ dockerRuns[t] = NumSteps
             /\ {"log", "fetch", "workspace", "diff", "cache.Set"} \subseteq events[t]
             /\ tasks[t].ChangesetSpec = [repo |-> t, gen |-> Gen]

\* In a second run with ClearCache set, where the first run left an entry
\* for every key, a task has cleared its entry, run all its steps and ended
\* without error, while another one failed in Clear.
C10_Witness ==
  /\ rerun
  /\ clearCache
  /\ \E t, u \in Registered :
       /\ pc[t] = "done"
       /\ tasks[t].Err = NoErr
       /\ dockerRuns[t] = NumSteps
       /\ tasks[t].ChangesetSpec = [repo |-> t, gen |-> 2]
       /\ pc[u] = "done"
       /\ tasks[u].Err = MkErr(u, "clearing cache")

\* C11: a task whose runSteps was stopped by the deadline of its runCtx
\* ends with the TimeoutReached error that carries the configured timeout,
\* not with the wrapped error of the stage that was killed; and no task ends
\* with that error unless its deadline expired.
C11_TimeoutError ==
  \A t \in Registered :
     /\ (t \in expired /\ "aborted" \in events[t]) =>
          /\ err[t] = errTimeoutReached(t)
          /\ err[t].timeout = Timeout
          /\ err[t].kind \notin {RunStages[i] : i \in 1..Len(RunStages)}
          /\ Terminal(t) => tasks[t].Err = errTimeoutReached(t)
     /\ err[t].kind = "Timeout reached" => t \in expired /\ "aborted" \in events[t]

\* A task was killed by its deadline in its last step and has ended with
\* the timeout error, which Wait returned.
C11_Witness ==
  \E t \in Registered :
     /\ t \in expired
     /\ pc[t] = "done"
     /\ "aborted" \in events[t]
     /\ dockerRuns[t] = NumSteps
     /\ "diff" \notin events[t]
     /\ tasks[t].Err = errTimeoutReached(t)
     /\ xpc = "done"
     /\ waitErr = errTimeoutReached(t)

C13_StartNonBlocking ==
  /\ ~(xpc = "start" /\ ~RangeDone /\ ~AcquireReady)
  /\ xpc = "done" => RangeDone

\* C14: with Parallelism 1 no two tasks are inside their pipeline at the
\* same time, and the list Wait returns holds the specs in the order in
\* which their tasks were registered (tasks are numbered in that order).
C14_SequentialInOrder ==
  parallelism = 1 =>
     /\ Cardinality({t \in Tasks : InPipeline(t)}) <= 1
     /\ xpc = "done" => \A i \in 1..Len(waitResult) : waitResult[i].repo = i

\* C15: once the logger of a task is closed, its file is still on disk if
\* the logger was marked errored or keepLogs is set, and is removed
\* otherwise; so no log file is left of a task that ended without error
\* while keepLogs is unset.
C15_LogKeptOrDeleted ==
  \A t \in Registered :
     "Close" \in {logs[t].calls[i] : i \in 1..Len(logs[t].calls)} =>
        /\ (logs[t].errored \/ logs[t].keep) => logs[t].file = "closed"
        /\ ~(logs[t].errored \/ logs[t].keep) => logs[t].file = "removed"
        /\ (Terminal(t) /\ tasks[t].Err = NoErr /\ ~keepLogs) => logs[t].file = "removed"

\* C16: a task that ends with an error after its log was created (an error
\* of runSteps, of cache.Set, or the timeout) has marked its logger errored
\* and then closed it, and the log file is on disk, whatever keepLogs is.
C16_FailedTaskKeepsLog ==
  \A t \in Registered :
     (Terminal(t) /\ tasks[t].Err # NoErr /\ "log" \in events[t]) =>
        /\ logs[t].calls = <<"MarkErrored", "Close">>
        /\ logs[t].errored
        /\ logs[t].file = "closed"
        /\ tasks[t].Err.kind \in
             {RunStages[i] : i \in 1..Len(RunStages)} \cup
             {"git add failed", "git commit failed", "Creating a CID file failed",
              "caching result", "Timeout reached"}

\* With keepLogs unset, a task was stopped by its deadline in a step, and
\* its log, marked errored, is on disk when Wait has returned.
C16_Witness ==
  /\ ~keepLogs
  /\ xpc = "done"
  /\ \E t \in Registered :
       /\ tasks[t].Err = errTimeoutReached(t)
       /\ dockerRuns[t] > 0
       /\ logs[t].errored
       /\ logs[t].file = "closed"

\* C17: once a task has left do, on whatever path, none of its scratch
\* files is on disk any more: no archive, no volumeDir, no container id
\* file.
C17_NoScratchLeft ==
  \A t \in Registered : Terminal(t) => disk[t] = {}

\* C18: every path unzip creates lies below the destination directory; and
\* when unzip meets an entry whose joined path is not below it, extraction
\* fails with that entry, nothing is created for it, and the task runs no
\* git command and no step.
C18_NoPathOutsideDest ==
  \A t \in Registered :
     /\ \A p \in written[t] : HasPrefixBase(p, Dest)
     /\ (zipEntry[t].n > 0 /\ ~HasPrefixBase(JoinPath(Dest, zipEntry[t]), Dest)) =>
          /\ rpc[t] = "out"
          /\ err[t] = MkErr(t, RunStages[2])
          /\ ops[t] = << >>
          /\ dockerRuns[t] = 0
          /\ events[t] \cap {"git", "docker", "diff"} = {}
          /\ tasks[t].ChangesetSpec = NoSpec

\* The second entry of an archive is named ../a: unzip had extracted the
\* first one and refused this one, and the task has ended with the
\* extraction error.
C18_Witness ==
  \E t \in Registered :
     /\ zipEntry[t].n = 2
     /\ zipEntry[t].segs = <<"..", "a">>
     /\ written[t] # {}
     /\ pc[t] = "done"
     /\ tasks[t].Err = MkErr(t, RunStages[2])

\* C19: unzip returns an error for every entry whose name is an absolute
\* path or has a ".." segment, also when the joined path lies below the
\* destination directory: with such an entry read, unzip has returned the
\* extraction error and created nothing for it.
C19_AbsoluteOrDotDotRejected ==
  \A t \in Registered :
     (/\ zipEntry[t].n > 0
      /\ \/ zipEntry[t].abs
         \/ \E i \in 1..Len(zipEntry[t].segs) : zipEntry[t].segs[i] = "..") =>
        /\ rpc[t] = "out"
        /\ err[t] = MkErr(t, RunStages[2])
        /\ JoinPath(Dest, zipEntry[t]) \notin written[t]

C21_LogHoldsWrittenLines ==
  LET RECURSIVE Expected(_)
      Expected(ws) ==
        IF ws = << >> THEN << >>
        ELSE [k \in 1..Len(Split(Head(ws).p)) |->
                [time |-> Head(ws).at, prefix |-> Head(ws).prefix,
                 text |-> Split(Head(ws).p)[k]]] \o Expected(Tail(ws))
  IN logFile = Expected(wrote)

\* C22: the calls of the update callback for one task come one after the
\* other in pipeline order: the first reports the task started and not
\* finished, at most one call reports it finished, that call is the last
\* one, and it has been made once do has returned.
C22_OneCallPerTransition ==
  \A t \in Registered :
     LET u == updates[t]
         finished == {i \in 1..Len(u) : u[i].FinishedAt # 0}
     IN /\ u # << >> => (u[1].StartedAt # 0 /\ u[1].FinishedAt = 0)
        /\ Cardinality(finished) <= 1
        /\ \A i \in finished : i = Len(u)
        /\ Terminal(t) => finished # {}

\* C23: no task is registered, started or run before every step has its
\* image; and when the resolution of a step failed, ExecuteCampaignSpec has
\* returned that error and the executor was never touched.
C23_ImagesResolvedFirst ==
  /\ (tasks # << >> \/ xpc # "add" \/ \E t \in Tasks : pc[t] # "idle") =>
       (resolved = NumSteps /\ spc \in {"exec", "returned"})
  /\ (spc \notin {"opts", "repos", "images"} /\ resolved < NumSteps) =>
       /\ spc = "returned"
       /\ svcErr \in {StepResolveError(resolved + 1), MkErr(0, "resolving repositories")}
       /\ tasks = << >>
       /\ xpc = "add"
       /\ \A t \in Tasks : pc[t] = "idle" /\ events[t] = {} /\ updates[t] = << >>

C23_Witness ==
  /\ NumSteps > 1
  /\ spc = "returned"
  /\ resolved = 1
  /\ svcErr = StepResolveError(2)
  /\ tasks = << >>

\* C24: the executor is made with Parallelism = n when -j n is given with
\* a positive n, and with GOMAXPROCS otherwise.
C24_JFlagSetsParallelism ==
  spc # "opts" => parallelism = (IF jFlag > 0 THEN jFlag ELSE gomaxprocs)

\* C25: the deadline of a task stops neither its archive fetch nor its
\* cache write: no task ends with the timeout error before its archive was
\* fetched, a fetch is stopped by its context only if the caller cancelled,
\* and cache.Set is called under a done context only if the caller
\* cancelled.
C25_DeadlineGovernsStepsOnly ==
  \A t \in Registered :
     /\ err[t] = errTimeoutReached(t) => "workspace" \in events[t]
     /\ ("aborted" \in events[t] /\ "workspace" \notin events[t]) => cancelled
     /\ "cache.Set under a done ctx" \in events[t] => cancelled

\* C26: once runSteps has given the diff and the spec is built, do calls
\* cache.Set for the key of the task, also when the deadline of the task
\* has passed by then; the call is made under a done context only if the
\* caller cancelled, and unless it fails the cache holds the spec.
C26_CacheSetUnderOuterCtx ==
  \A t \in Registered :
     /\ "cache.Set under a done ctx" \in events[t] => cancelled
     /\ (/\ tasks[t].ChangesetSpec # NoSpec
         /\ ~tasks[t].Cached
         /\ pc[t] \in {"deferred", "error", "release", "done"}) =>
          /\ "cache.Set" \in events[t]
          /\ err[t] \in {NoErr, MkErr(t, "caching result")}
          /\ err[t] = NoErr => cache[cacheKey(t)] = tasks[t].ChangesetSpec
     /\ "cache.Set" \in events[t] => (tasks[t].ChangesetSpec # NoSpec /\ ~tasks[t].Cached)

\* The deadline of a task passed after its steps and before do returned,
\* the caller did not cancel, and the spec of the task is in the cache.
C26_Witness ==
  \E t \in Registered :
     /\ t \in expired
     /\ ~cancelled
     /\ pc[t] = "done"
     /\ "cache.Set" \in events[t]
     /\ "cache.Set under a done ctx" \notin events[t]
     /\ tasks[t].Err = NoErr
     /\ cache[cacheKey(t)] = tasks[t].ChangesetSpec
     /\ cache[cacheKey(t)].gen = Gen

\* C27: once runSteps has returned, for every step it launched the
\* container id file is gone, and if the file was there when the closure
\* of the step ran, `docker rm -f` was started for the container.
C27_ContainerRemovedAlways ==
  \A t \in Registered :
     (pc[t] # "run" /\ dockerRuns[t] > 0) =>
        /\ \A i \in 1..dockerRuns[t] : CidFile(i) \notin disk[t]
        /\ \A c \in cleanups[t] : c.step <= dockerRuns[t] /\ c.rm

\* C28 as stated: a task ends with the timeout error only if the deadline
\* of its own runCtx was exceeded.
C28_TimeoutOnlyOnOwnDeadline ==
  \A t \in Registered : err[t] = errTimeoutReached(t) => t \in expired

\* C28, amended: a task ends with the timeout error only if runCtx
\* reports DeadlineExceeded, by its own deadline or by the one of the ctx
\* of Start; a task stopped by the caller's cancellation, or whose process
\* was killed while runCtx reports no deadline, ends with the error of the
\* stage.
C28_TimeoutOnlyOnDeadlineExceeded ==
  \A t \in Registered :
     /\ err[t] = errTimeoutReached(t) =>
          /\ RunCtxErr(t) = "DeadlineExceeded"
          /\ t \in expired \/ ctxDeadline
     /\ (err[t] # NoErr /\ ~ctxDeadline /\ t \notin expired) =>
          err[t].kind # "Timeout reached"

\* The ctx of Start passed its deadline while a step ran, the deadline of
\* the task itself did not, and the task has ended with the timeout error.
C28_Witness ==
  \E t \in Registered :
     /\ ctxDeadline
     /\ t \notin expired
     /\ ~cancelled
     /\ dockerRuns[t] > 0
     /\ pc[t] = "done"
     /\ tasks[t].Err = errTimeoutReached(t)

\* C29: the slots taken are exactly those of the workers between Acquire
\* and Release, on whatever path do returned: a worker that is done holds
\* none, and when Wait has returned none is held at all.
C29_SlotsBalance ==
  /\ held = Cardinality({t \in Tasks : HoldsSlot(t)})
  /\ held >= 0
  /\ xpc = "done" => (held = 0 /\ \A t \in Registered : pc[t] = "done")

\* Wait has returned after one task ended in an error and another in a
\* cache hit, and no slot is held.
C29_Witness ==
  /\ xpc = "done"
  /\ held = 0
  /\ \E t \in Registered : tasks[t].Err # NoErr
  /\ \E t \in Registered : tasks[t].Cached /\ tasks[t].Err = NoErr

\* C30: a task has a log only after its cache lookup missed or its cache
\* entry was cleared; whenever its archive was fetched or a command or step
\* of it ran, the log was there; a task that ended in a cache hit or in an
\* error of cache.Clear or cache.Get has none; and when the last status of
\* a task is reported its log, if it has one, is closed.
C30_LogLifecycle ==
  \A t \in Registered :
     /\ logs[t].file # "none" =>
          /\ "log" \in events[t]
          /\ ~tasks[t].Cached
          /\ IF clearCache THEN "cache.Clear" \in events[t]
                           ELSE "cache.Get" \in events[t]
          /\ err[t].kind \notin {"clearing cache", "checking cache", "creating log file"}
     /\ ("fetch" \in events[t] \/ ops[t] # << >> \/ dockerRuns[t] > 0) =>
          logs[t].file # "none"
     /\ (tasks[t].Cached \/ err[t].kind \in {"clearing cache", "checking cache"}) =>
          (logs[t].file = "none" /\ "log" \notin events[t])
     /\ Terminal(t) =>
          /\ seenLog[t] = logs[t].file
          /\ seenLog[t] \in {"none", "closed"}
          /\ logs[t].file = "closed" => logs[t].calls[Len(logs[t].calls)] = "Close"

\* A task ran its steps with a log, its last status was reported, and the
\* log was closed by then.
C30_Witness ==
  \E t \in Registered :
     /\ pc[t] = "done"
     /\ dockerRuns[t] = NumSteps
     /\ tasks[t].Err = NoErr
     /\ seenLog[t] = "closed"
     /\ logs[t].calls = <<"Close">>

\* C31: once the runCtx of a task is done, by cancellation or by its
\* deadline, unzip reads no further entry of the archive and creates
\* nothing more: the extraction in progress returns with an error.
C31_ExtractionHonorsCtx ==
  [][\A t \in Registered :
       (pc[t] = "run" /\ rpc[t] = "unzip" /\ RunCtxErr(t) # "nil") =>
          /\ zipEntry'[t] = zipEntry[t]
          /\ written'[t] = written[t]
          /\ rpc'[t] # "git init"]_vars

\* The messages of do formatted with task.Repository.Name: the wraps of
\* lines 134, 140 and 213.  The wrap of line 165, the messages of
\* runSteps and that of errTimeoutReached have no such argument.  (The
\* field task of an error of the model tells which pipeline made it; it
\* is no part of the message.)
NamesRepository(e) ==
  e.kind \in {"clearing cache", "checking cache", "caching result"}

\* C32: the terminal error of a task carries the name of the repository
\* of the task, whichever fatal stage the error comes from.
C32_ErrorNamesRepository ==
  \A t \in Registered :
     tasks[t].Err # NoErr => NamesRepository(tasks[t].Err)

\* C34: executor.specs holds no spec of a task whose terminal status
\* carries an error.
C34_SpecsOfSucceededOnly ==
  \A t \in Registered :
     (Terminal(t) /\ tasks[t].Err # NoErr) =>
        \A i \in 1..Len(specs) : specs[i].repo # t

\* C35: when runSteps is about to launch a step, the cleanup of every step
\* before it has been performed (its container id file has been read and
\* deleted, so no container of an earlier step is left to remove); and
\* once the workspace directory of the task is deleted no cleanup of a
\* container is left to do.
C35_CleanupBeforeNextStep ==
  \A t \in Registered :
     /\ (pc[t] = "run" /\ rpc[t] = "step") =>
           \A i \in 1..dockerRuns[t] : CidFile(i) \notin disk[t]
     /\ (dockerRuns[t] > 0 /\ VolumeDir \notin disk[t]) =>
           \A i \in 1..NumSteps : CidFile(i) \notin disk[t]

\* C33: when LogManager.Close has returned, Close was called on every
\* logger of the manager, whatever the loggers before it returned, and
\* the error returned holds each failure of a Close once and nothing else.
C33_CloseAllCollectAll ==
  lmpc = "returned" =>
     /\ \A t \in DOMAIN lmTasks :
          /\ lmClosed[t] # NotCalled
          /\ lmTasks[t].calls # << >>
          /\ lmTasks[t].calls[Len(lmTasks[t].calls)] = "Close"
          /\ lmClosed[t] # NoErr => Count(lmRet.Errors, lmClosed[t]) = 1
     /\ Len(lmRet.Errors) =
          Cardinality({t \in DOMAIN lmTasks : lmClosed[t] # NoErr})

\* Close has returned the failures of two loggers: the second logger was
\* closed after the first had failed.
C33_Witness ==
  /\ lmpc = "returned"
  /\ Len(lmRet.Errors) = 2
  /\ \E t \in DOMAIN lmTasks : lmClosed[t] = MkErr(t, "close failed")

\* C36: when ResolveRepositories has returned, either a clause it went
\* through did not resolve (its request did not succeed, or it has
\* neither a query nor a name) and the call returned an error and no
\* list; or it returned, without an error, the repositories of all the
\* clauses, each id once, in the order of their first occurrence.
C36_ResolveOnceInOrder ==
  (rrpc = "returned" /\ rrRet # << >>) =>
     LET failed(on) == (~on.query /\ ~on.name) \/ on.do # DoFine
         all == [k \in 1..Len(rrOn) |-> rrOn[k].results]
         got == rrRet.repos
         before(a, b) ==
           \E k \in 1..Len(all) : \E i \in 1..Len(all[k]) :
              /\ all[k][i] = a
              /\ \A l \in 1..k : \A j \in 1..Len(all[l]) :
                   all[l][j] = b => (l = k /\ j > i)
     IN /\ ~rrRet.panicked
        /\ IF \E k \in 1..Len(rrOn) : failed(rrOn[k])
             THEN rrRet.err # NoErr /\ got = << >>
             ELSE /\ rrRet.err = NoErr
                  /\ \A i, j \in 1..Len(got) : got[i] = got[j] => i = j
                  /\ {got[i] : i \in 1..Len(got)} =
                       UNION {{all[k][i] : i \in 1..Len(all[k])} : k \in 1..Len(all)}
                  /\ \A i, j \in 1..Len(got) : before(got[i], got[j]) => i < j

\* C37: waitRepoCloned makes at most maxTries listing queries (none when
\* maxTries <= 0) and then returns: every query but the last gave no error
\* and not exactly one name; it returns true exactly when the last
\* listing holds one name and has no error, the error of the last listing
\* exactly when that has one, and false with no error exactly after
\* maxTries queries none of which decided.
C37_WaitRepoClonedTerminates ==
  /\ [](LET bound == IF vdSpec.MaxTries > 0 THEN vdSpec.MaxTries ELSE 0
            n == Len(vdAnswers)
            decides(a) == a.err # NoErr \/ a.names = 1
        IN /\ n <= bound
           /\ \A k \in 1..(n - 1) : ~decides(vdAnswers[k])
           /\ vdWait.called =>
                /\ vdWait.cloned <=>
                     (n > 0 /\ vdAnswers[n].err = NoErr /\ vdAnswers[n].names = 1)
                /\ (vdWait.err # NoErr) <=> (n > 0 /\ vdAnswers[n].err # NoErr)
                /\ vdWait.err # NoErr => vdWait.err = vdAnswers[n].err
                /\ (~vdWait.cloned /\ vdWait.err = NoErr) <=>
                     (n = bound /\ (n > 0 => ~decides(vdAnswers[n]))))
  /\ (vdpc = "wait") ~> (vdpc # "wait")

\* waitRepoCloned gave up after MaxTries listings, and validate returned
\* its error for that.
C37_Witness ==
  /\ vdpc = "returned"
  /\ vdSpec.MaxTries = MaxTries
  /\ vdWait.called /\ ~vdWait.cloned /\ vdWait.err = NoErr
  /\ Len(vdAnswers) = MaxTries
  /\ vdRet.err = MkErr(0, "repo didn't clone")

\* C38: when validate is over, deleteExternalService has been called once,
\* with the id of the service, if addExternalService returned a non-empty
\* id and no error and DeleteWhenDone is set, whatever validate returned;
\* and it has not been called otherwise, nor at any time before validate
\* is over.
C38_DeleteOnceOnEveryPath ==
  LET added == vdExt.called /\ vdExt.err = NoErr /\ vdExt.id # ""
  IN /\ vdpc \notin {"returned", "panicked"} => vdDeletes = << >>
     /\ vdpc \in {"returned", "panicked"} =>
          vdDeletes = IF added /\ vdSpec.DeleteWhenDone THEN <<vdExt.id>> ELSE << >>

\* The service was added, and validate has returned an error of a later
\* stage after deleting the service.
C38_Witness ==
  /\ vdpc = "returned"
  /\ vdExt.called /\ vdExt.err = NoErr
  /\ vdDeletes = <<ExtSvcID>>
  /\ vdRet.err \in {MkErr(0, "listClonedRepos"), MkErr(0, "repo didn't clone"),
                    MkErr(0, "searchMatchCount"), MkErr(0, "no results")}

\* C39: newClient returns a client or an error, never neither; so
\* authenticate is never called on a nil client; and authenticate returns
\* nil only when it has stored the session cookie in the client.
C39_ClientOrErrorAndSession ==
  /\ vdNew.called => (~vdNew.client.nil \/ vdNew.err # NoErr)
  /\ vdpc \in {"signIn auth", "siteAdminInit auth"} => ~vdNew.client.nil
  /\ (vdAuth.called /\ vdAuth.err = NoErr) => vdAuth.stored

====
